---- MODULE Spec2Model ----
(***************************************************************************)
(* The codex-temporal agent workflow (src/src/workflow.rs), its in-workflow *)
(* tool handler (src/src/tools.rs) and its event buffer (src/src/sink.rs). *)
(*                                                                         *)
(* Scheduling.  The workflow body is single-threaded and cooperative: the  *)
(* engine applies the signals of an activation, then polls the workflow    *)
(* code until every coroutine is blocked at a suspension point             *)
(* (wait_condition or an activity await).  `running` is TRUE from the first *)
(* workflow step of an activation to the step after which nothing in the   *)
(* workflow can move; signals, queries and activity results are delivered  *)
(* only while it is FALSE.  Several signals may be applied before the      *)
(* workflow code runs (one activation can carry several).                  *)
(*                                                                         *)
(* Tool calls.  handle_tool_call returns a boxed 'static future per call   *)
(* (tools.rs:64,96); run hands the handler to try_run_sampling_request      *)
(* (workflow.rs:277-288), which collects the futures of the tool calls of  *)
(* one model response and drives them together until all have completed.   *)
(* Each future is a coroutine with its own position (`handlers`).          *)
(***************************************************************************)
EXTENDS Integers, Sequences, FiniteSets, TLC

\* ------------------------------------------------------------------ bounds
\* receive_user_turn signals delivered in one run
MaxTurns == 1
\* tool calls (distinct call_ids) the model issues in one run
MaxCalls == 2
\* events held by a buffer drawn for the sink specification
MaxLen == 3
\* two concurrent callers of next_event are followed up to this many returns
MaxDelivered == 3
\* the engine fails at most this many get_events_since queries
MaxQueryFailures == 1

\* workflow.rs:48
MAX_ITERATIONS == 50

\* ------------------------------------------------------------- value types
\* Option<T>: None is <<>>, Some(x) is <<x>>
None == <<>>
Some(x) == <<x>>
IsSome(o) == o # <<>>
Unwrap(o) == o[1]

AskForApproval == {"Never", "UnlessTrusted", "OnRequest", "OnFailure"}
CallIds == 1..MaxCalls
\* turn_id: 0 is the seeded "turn-0", n >= 1 the n-th receive_user_turn signal
TurnIds == 0..MaxTurns

\* Event { id, msg }: msg's variant and the fields the workflow sets
Event(id, msg, call_id, last) ==
    [id |-> id, msg |-> msg, call_id |-> call_id, last_agent_message |-> last]
TurnStartedEvent(t) == Event(Some(t), "TurnStarted", None, None)
TurnCompleteEvent(t, last) == Event(Some(t), "TurnComplete", None, last)
ExecApprovalRequestEvent(t, c) == Event(Some(t), "ExecApprovalRequest", Some(c), None)
ShutdownCompleteEvent == Event(None, "ShutdownComplete", None, None)

PendingApproval(c, d) == [call_id |-> c, decision |-> d]

\* a turn for which no sampling request was issued yet
NoRequests == [requests |-> 0, capped |-> FALSE]

\* FunctionCallOutput { call_id, output: { body: {output, metadata.exit_code}, success } }
FunctionCallOutput(c, text, code, ok) ==
    [call_id |-> c, output |-> text, exit_code |-> code, success |-> ok]

VARIABLES
    approval_policy,     \* input.approval_policy
    user_turns,          \* CodexWorkflow.user_turns (turn ids)
    pending_approval,    \* CodexWorkflow.pending_approval
    shutdown_requested,  \* CodexWorkflow.shutdown_requested
    events,              \* BufferEventSink.events
    pc,                  \* where run() is suspended
    turn_id,             \* run(): the turn being processed
    iterations,          \* run(): iterations of the current turn
    total_iterations,    \* run(): total_iterations
    last_agent_message,  \* run(): last_agent_message (the turn that produced it)
    handlers,            \* the in-flight handle_tool_call futures: call_id -> position
    outputs,             \* call_id -> the ResponseInputItem its in-flight handler returned
    sampling_msg,        \* the agent message of the response being processed
    call_args,           \* call_id -> the arguments the model gives the tool call
    safe_calls,          \* call_ids whose command is_known_safe_command accepts
    running,             \* an activation is executing workflow code
    query_result,        \* what the last get_events_since returned
    \* history (not program state)
    emitted,             \* every event ever pushed, in order
    enqueued,            \* every turn_id ever put into user_turns, in order
    next_call,           \* the next call_id the model will use
    dispatched,          \* call_ids for which the tool_exec activity was started
    approved_applied,    \* call_ids C: receive_approval{C, true} was applied while C was pending
    shutdown_during,     \* the turns in progress when a request_shutdown arrived
    decision_read,       \* call_id -> the pending_approval its handler read its decision from
    turn_stats,          \* turn_id -> the sampling requests issued in the turn, and whether
                         \* its inner loop stopped at MAX_ITERATIONS
    \* the session adapter (TemporalAgentSession)
    started,             \* TemporalAgentSession.started
    events_index,        \* TemporalAgentSession.events_index
    event_buffer,        \* TemporalAgentSession.event_buffer
    turn_counter,        \* TemporalAgentSession.turn_counter
    shutdown,            \* TemporalAgentSession.shutdown
    ne,                  \* caller -> where its next_event call is, and its locals
    sub,                 \* submitter -> where its submit call is, and its locals
    \* history (not program state)
    delivered,           \* what next_event returned, in order: caller, event, synthesized
    query_failures,      \* how many get_events_since queries the engine failed
    reconnected,         \* the adapter was constructed for a workflow that already ran
    \* the activity worker and the entropy providers
    tool_task,           \* one execution of the tool_exec activity, as the engine sees it
    model_task,          \* one execution of a model-call activity
    random_sources,      \* two TemporalRandomSource values and the calls made on them
    clock,               \* a TemporalClock and what its calls returned
    runs                 \* an execution of run() and its replay: what each generated, and where

vars == <<approval_policy, call_args, user_turns, pending_approval, shutdown_requested, events,
          pc, turn_id, iterations, total_iterations, last_agent_message, handlers,
          outputs, sampling_msg, safe_calls, running, query_result,
          emitted, enqueued, next_call, dispatched, approved_applied, shutdown_during, decision_read,
          turn_stats,
          started, events_index, event_buffer, turn_counter, shutdown, ne, sub,
          delivered, query_failures, reconnected,
          tool_task, model_task, random_sources, clock, runs>>

\* the adapter's part of the state
avars == <<started, events_index, event_buffer, turn_counter, shutdown, ne, sub,
           delivered, query_failures, reconnected>>

\* the activity worker's and the entropy providers' part of the state
xvars == <<tool_task, model_task, random_sources, clock, runs>>

\* ------------------------------------------------------------ event buffer
\* serde_json::to_string(&Event): the JSON text of e, or an error
Serialize(e) == Some([json |-> e])

\* guard[from..].iter().filter_map(|e| serde_json::to_string(e).ok()).collect()
RECURSIVE FilterMapJson(_)
FilterMapJson(s) ==
    IF s = <<>> THEN <<>>
    ELSE LET r == Serialize(Head(s))
         IN (IF IsSome(r) THEN <<Unwrap(r)>> ELSE <<>>) \o FilterMapJson(Tail(s))

\* (variant) the slice starts one event early
SliceFrom_OneEarly(buf, from_index) ==
    SubSeq(buf, IF from_index = 0 THEN 1 ELSE from_index, Len(buf))

\* guard[from_index..]
SliceFrom(buf, from_index) == SubSeq(buf, from_index + 1, Len(buf))

\* BufferEventSink::events_since: (jsons, total)
EventsSince(buf, from_index) ==
    LET total == Len(buf)
    IN IF from_index >= total
       THEN [events |-> <<>>, watermark |-> total]
       ELSE [events |-> FilterMapJson(SliceFrom(buf, from_index)), watermark |-> total]

\* BufferEventSink::drain: std::mem::take leaves an empty buffer behind
DrainLeaves(buf) == <<>>

\* BufferEventSink::emit_event_sync / emit_event: push
Push(buf, evs) == buf \o evs

\* the workflow pushes evs into its sink
Emit(evs) ==
    /\ events' = Push(events, evs)
    /\ emitted' = emitted \o evs

\* ------------------------------------------------- tool call arguments
\* a JSON value
JsonString(x) == [type |-> "string", str |-> x, items |-> <<>>, fields |-> <<>>]
JsonNumber == [type |-> "number", str |-> "", items |-> <<>>, fields |-> <<>>]
JsonArray(xs) == [type |-> "array", str |-> "", items |-> xs, fields |-> <<>>]
\* an object with the one member key: value
JsonObject(key, value) ==
    [type |-> "object", str |-> "", items |-> <<>>, fields |-> <<[key |-> key, value |-> value]>>]

\* the arguments string of a tool call: its text and, where the text is JSON,
\* the value serde_json::from_str reads from it
Args(raw, parsed) == [raw |-> raw, parsed |-> parsed]
NoArguments == Args("", None)
Arguments ==
    {Args("{command:[ls]}", Some(JsonObject("command", JsonArray(<<JsonString("ls")>>)))),
     Args("{command:[rm,-rf,/]}",
          Some(JsonObject("command",
                          JsonArray(<<JsonString("rm"), JsonString("-rf"), JsonString("/")>>)))),
     Args("{command:ls}", Some(JsonObject("command", JsonString("ls")))),
     Args("{command:[ls,1]}",
          Some(JsonObject("command", JsonArray(<<JsonString("ls"), JsonNumber>>)))),
     Args("{cmd:[ls]}", Some(JsonObject("cmd", JsonArray(<<JsonString("ls")>>)))),
     Args("ls", None)}

\* v.get("command")
JsonGet(v, key) ==
    IF v.type = "object" /\ \E i \in 1..Len(v.fields) : v.fields[i].key = key
    THEN Some((CHOOSE f \in {v.fields[i] : i \in 1..Len(v.fields)} : f.key = key).value)
    ELSE None

\* tools.rs:84-93: the command vector: the strings of the "command" array, or the
\* raw arguments alone
CommandOf(arguments) ==
    LET cmd == IF IsSome(arguments.parsed)
               THEN JsonGet(Unwrap(arguments.parsed), "command") ELSE None
    IN IF /\ IsSome(cmd)
          /\ Unwrap(cmd).type = "array"
          /\ \A i \in 1..Len(Unwrap(cmd).items) : Unwrap(cmd).items[i].type = "string"
       THEN [i \in 1..Len(Unwrap(cmd).items) |-> Unwrap(cmd).items[i].str]
       ELSE <<arguments.raw>>

\* codex_shell_command::is_safe_command::is_known_safe_command, as far as the
\* unit test pins it down: read-only programs are safe
is_known_safe_command(command) ==
    command # <<>> /\ command[1] \in {"ls", "cat", "pwd", "whoami"}

\* of the calls of one response, those whose command is known safe
SafeAmong(calls) == {c \in calls : is_known_safe_command(CommandOf(call_args[c]))}

\* ------------------------------------------------------------ tool handler
\* (variant) OnFailure lets the call run and asks only after a failure
NeedsApproval_OnFailureRuns(c) ==
    CASE approval_policy = "Never" -> FALSE
      [] approval_policy = "OnFailure" -> FALSE
      [] approval_policy = "UnlessTrusted" -> c \notin safe_calls
      [] OTHER -> TRUE

\* tools.rs:98-103
NeedsApproval(c) ==
    CASE approval_policy = "Never" -> FALSE
      [] approval_policy = "UnlessTrusted" -> c \notin safe_calls
      [] OTHER -> TRUE

\* tools.rs:132-136: pending_approval.as_ref().map_or(true, |p| p.decision.is_some())
ApprovalWaitOver ==
    IF IsSome(pending_approval) THEN IsSome(Unwrap(pending_approval).decision) ELSE TRUE

\* (variant) any recorded decision counts as an approval
DecisionRead_AnyDecision ==
    IsSome(pending_approval) /\ IsSome(Unwrap(pending_approval).decision)

\* tools.rs:141-145: pending_approval.as_ref().and_then(|p| p.decision).unwrap_or(false)
DecisionRead ==
    IF IsSome(pending_approval) /\ IsSome(Unwrap(pending_approval).decision)
    THEN Unwrap(Unwrap(pending_approval).decision)
    ELSE FALSE

\* (variant) the decision is read and the slot is left as it is
ClearedPending_Kept == pending_approval

\* tools.rs:146: s.pending_approval = None
ClearedPending == None

\* tools.rs:179-195
denied_response(c) ==
    FunctionCallOutput(c, "Tool execution was denied by the user.", 1, FALSE)

\* types.rs:82-101
into_response_input_item(c, exit_code) ==
    FunctionCallOutput(c, "tool output", exit_code, exit_code = 0)

\* tools.rs:156-171: start_activity(CodexActivities::tool_exec, ...) and await it
DispatchToolExec(c) ==
    /\ handlers' = [handlers EXCEPT ![c] = "awaiting_activity"]
    /\ dispatched' = dispatched \cup {c}

\* ---------------------------------------------------------- session adapter
\* the tasks that call next_event, and the tasks that call submit
Callers == {1, 2}
Submitters == {1, 2}

\* a next_event call that has not begun or has returned
NeIdle == [pc |-> "idle", from_index |-> 0, result |-> None]
\* a submit call that has not begun: no op, nothing sent, nothing returned
SubIdle == [pc |-> "idle", op |-> None, turn |-> 0, sent |-> <<>>, ret |-> None]

\* session.rs:52-63
SessionNew ==
    /\ started = FALSE
    /\ events_index = 0
    /\ event_buffer = <<>>
    /\ turn_counter = 0
    /\ shutdown = FALSE
    /\ ne = [k \in Callers |-> NeIdle]
    /\ sub = [j \in Submitters |-> SubIdle]
    /\ delivered = <<>>
    /\ query_failures = 0

\* no activity is executing, no entropy provider is in use
NoTask == [pc |-> "none"]
HostIdle ==
    /\ tool_task = NoTask
    /\ model_task = NoTask
    /\ random_sources = NoTask
    /\ clock = NoTask
    /\ runs = NoTask

\* ------------------------------------------------- what the workflow can do
\* (variant) a loop that takes up a queued turn wherever run() is
LoopWakeEnabled_AnyPc ==
    user_turns # <<>> \/ shutdown_requested

\* (variant) wait_condition(|s| !s.user_turns.is_empty())
LoopWakeEnabled_IgnoresShutdown ==
    /\ pc = "wait_turn"
    /\ user_turns # <<>>

\* workflow.rs:197-198: run() is at its wait_condition and the condition holds
LoopWakeEnabled ==
    /\ pc = "wait_turn"
    /\ (user_turns # <<>> \/ shutdown_requested)

HandlerStartEnabled(c) == handlers[c] = "created"

HandlerResumeEnabled(c) == handlers[c] = "awaiting_approval" /\ ApprovalWaitOver

SamplingDoneEnabled ==
    /\ pc = "tools"
    /\ \A c \in CallIds : handlers[c] \in {"none", "returned", "failed"}

\* some coroutine of the workflow is not blocked
WfEnabled ==
    \/ LoopWakeEnabled
    \/ \E c \in CallIds : HandlerStartEnabled(c) \/ HandlerResumeEnabled(c)
    \/ SamplingDoneEnabled

\* ------------------------------------------------------------------- Init
Init ==
    /\ approval_policy \in AskForApproval
    /\ \E user_message_empty \in BOOLEAN :
          /\ user_turns = (IF user_message_empty THEN <<>> ELSE <<0>>)
          /\ enqueued = user_turns
    /\ pending_approval = None
    /\ shutdown_requested = FALSE
    /\ events = <<>>
    /\ pc = "wait_turn"
    /\ turn_id = None
    /\ iterations = 0
    /\ total_iterations = 0
    /\ last_agent_message = None
    /\ handlers = [c \in CallIds |-> "none"]
    /\ outputs = [c \in CallIds |-> None]
    /\ sampling_msg = None
    /\ safe_calls = {}
    /\ running = FALSE
    /\ query_result = None
    /\ emitted = <<>>
    /\ next_call = 1
    /\ dispatched = {}
    /\ approved_applied = {}
    /\ shutdown_during = {}
    /\ decision_read = [c \in CallIds |-> None]
    /\ turn_stats = [t \in TurnIds |-> NoRequests]
    /\ SessionNew
    /\ HostIdle
    /\ reconnected = FALSE
    /\ call_args = [c \in CallIds |-> NoArguments]

\* ---------------------------------------------------------------- signals
NextTurnId == IF enqueued = <<>> THEN 1 ELSE enqueued[Len(enqueued)] + 1

\* workflow.rs:89-96
ReceiveUserTurnInput(t) ==
    /\ ~running /\ pc # "done"
    /\ user_turns' = Append(user_turns, t)
    /\ enqueued' = Append(enqueued, t)
    /\ UNCHANGED <<approval_policy, call_args, turn_stats, pending_approval, shutdown_requested, events, pc,
                   turn_id, iterations, total_iterations, last_agent_message, handlers,
                   outputs, sampling_msg, safe_calls, running,
                   query_result, emitted, next_call, dispatched, approved_applied, shutdown_during,
                   decision_read>>

\* the signals of one client, numbered in the order they are delivered
ReceiveUserTurn ==
    /\ NextTurnId <= MaxTurns
    /\ ReceiveUserTurnInput(NextTurnId)

\* (variant) the decision is recorded whatever call is pending
ApplyApproval_AnyCall(pa, c, approved) ==
    IF IsSome(pa)
    THEN Some(PendingApproval(Unwrap(pa).call_id, Some(approved)))
    ELSE pa

\* (variant) a decision for which nothing is pending is kept for later
ApplyApproval_StoresUnasked(pa, c, approved) ==
    IF IsSome(pa) /\ Unwrap(pa).call_id # c
    THEN pa
    ELSE Some(PendingApproval(c, Some(approved)))

\* workflow.rs:99-110
ApplyApproval(pa, c, approved) ==
    IF IsSome(pa) /\ Unwrap(pa).call_id = c
    THEN Some(PendingApproval(c, Some(approved)))
    ELSE pa

ReceiveApproval(c, approved) ==
    /\ ~running /\ pc # "done"
    /\ pending_approval' = ApplyApproval(pending_approval, c, approved)
    /\ approved_applied' =
          IF approved /\ IsSome(pending_approval) /\ Unwrap(pending_approval).call_id = c
          THEN approved_applied \cup {c} ELSE approved_applied
    /\ UNCHANGED <<approval_policy, call_args, turn_stats, user_turns, shutdown_requested, events, pc,
                   turn_id, iterations, total_iterations, last_agent_message, handlers,
                   outputs, sampling_msg, safe_calls, running,
                   query_result, emitted, enqueued, next_call, dispatched,
                   shutdown_during, decision_read>>

\* workflow.rs:113-116
RequestShutdown ==
    /\ ~running /\ pc # "done"
    /\ shutdown_requested' = TRUE
    /\ shutdown_during' = shutdown_during \cup (IF IsSome(turn_id) THEN {Unwrap(turn_id)} ELSE {})
    /\ UNCHANGED <<approval_policy, call_args, turn_stats, user_turns, pending_approval, events, pc,
                   turn_id, iterations, total_iterations, last_agent_message, handlers,
                   outputs, sampling_msg, safe_calls, running,
                   query_result, emitted, enqueued, next_call, dispatched,
                   approved_applied, decision_read>>

\* ---------------------------------------------------------------- queries
\* workflow.rs:123-131
GetEventsSince(from_index) ==
    /\ ~running
    /\ query_result' = Some([from_index |-> from_index] @@ EventsSince(events, from_index))
    /\ UNCHANGED <<approval_policy, call_args, turn_stats, user_turns, pending_approval, shutdown_requested,
                   events, pc, turn_id, iterations, total_iterations,
                   last_agent_message, handlers, outputs, sampling_msg, safe_calls,
                   running, emitted, enqueued, next_call, dispatched,
                   approved_applied, shutdown_during, decision_read>>

\* workflow.rs:344-347: self.events.drain()
GetEvents ==
    /\ ~running
    /\ events' = DrainLeaves(events)
    /\ UNCHANGED <<avars, xvars>>
    /\ UNCHANGED <<approval_policy, call_args, turn_stats, user_turns, pending_approval, shutdown_requested,
                   pc, turn_id, iterations, total_iterations, last_agent_message,
                   handlers, outputs, sampling_msg, safe_calls, running,
                   query_result, emitted, enqueued, next_call, dispatched,
                   approved_applied, shutdown_during, decision_read>>

\* ------------------------------------------------------------ the run loop
\* (variant) the loop stops once it has gone past the cap
CapReached_OnePast(n) == n > MAX_ITERATIONS

\* workflow.rs:260: if iterations >= MAX_ITERATIONS
CapReached(n) == n >= MAX_ITERATIONS

\* workflow.rs:277-288: try_run_sampling_request is called once more in turn t
IssueRequest(t) == [turn_stats EXCEPT ![t].requests = @ + 1]

\* workflow.rs:259-311: a sampling request of the current turn has returned; the
\* loop calls the next one, or leaves at line 262 (wanted: the outcome asked for
\* a follow-up) or at lines 299 and 308
AfterRequest(continue, wanted) ==
    IF continue THEN IssueRequest(Unwrap(turn_id))
    ELSE [turn_stats EXCEPT ![Unwrap(turn_id)].capped = wanted]

\* (variant) the loop goes back to its wait_condition after every turn
AfterSampling_NoShutdownCheck(ok, follow_up, msg) ==
    LET last == IF ok /\ IsSome(msg) THEN msg ELSE last_agent_message
        continue == ok /\ follow_up /\ ~CapReached(iterations + 1)
    IN /\ iterations' = iterations + 1
       /\ total_iterations' = total_iterations + 1
       /\ last_agent_message' = last
       /\ sampling_msg' = None
       /\ turn_stats' = AfterRequest(continue, ok /\ follow_up)
       /\ IF continue
          THEN /\ pc' = "model_call"
               /\ UNCHANGED <<events, emitted, turn_id>>
          ELSE /\ turn_id' = None
               /\ IF FALSE
                  THEN /\ Emit(<<TurnCompleteEvent(Unwrap(turn_id), last),
                                 ShutdownCompleteEvent>>)
                       /\ pc' = "done"
                  ELSE /\ Emit(<<TurnCompleteEvent(Unwrap(turn_id), last)>>)
                       /\ pc' = "wait_turn"

\* (variant) a failed sampling request leaves the turn without TurnComplete
AfterSampling_ErrReturns(ok, follow_up, msg) ==
    LET last == IF ok /\ IsSome(msg) THEN msg ELSE last_agent_message
        continue == ok /\ follow_up /\ ~CapReached(iterations + 1)
    IN /\ iterations' = iterations + 1
       /\ total_iterations' = total_iterations + 1
       /\ last_agent_message' = last
       /\ sampling_msg' = None
       /\ turn_stats' = AfterRequest(continue, ok /\ follow_up)
       /\ IF continue
          THEN /\ pc' = "model_call"
               /\ UNCHANGED <<events, emitted, turn_id>>
          ELSE IF ~ok
          THEN /\ turn_id' = None
               /\ pc' = "wait_turn"
               /\ UNCHANGED <<events, emitted>>
          ELSE /\ turn_id' = None
               /\ IF shutdown_requested
                  THEN /\ Emit(<<TurnCompleteEvent(Unwrap(turn_id), last),
                                 ShutdownCompleteEvent>>)
                       /\ pc' = "done"
                  ELSE /\ Emit(<<TurnCompleteEvent(Unwrap(turn_id), last)>>)
                       /\ pc' = "wait_turn"

\* (variant) each turn has its own last_agent_message, absent until the turn
\* produces one
AfterSampling_MessagePerTurn(ok, follow_up, msg) ==
    LET last == IF ok /\ IsSome(msg) THEN msg
                ELSE IF last_agent_message = turn_id THEN last_agent_message ELSE None
        continue == ok /\ follow_up /\ ~CapReached(iterations + 1)
    IN /\ iterations' = iterations + 1
       /\ total_iterations' = total_iterations + 1
       /\ last_agent_message' = last
       /\ sampling_msg' = None
       /\ turn_stats' = AfterRequest(continue, ok /\ follow_up)
       /\ IF continue
          THEN /\ pc' = "model_call"
               /\ UNCHANGED <<events, emitted, turn_id>>
          ELSE /\ turn_id' = None
               /\ IF shutdown_requested
                  THEN /\ Emit(<<TurnCompleteEvent(Unwrap(turn_id), last),
                                 ShutdownCompleteEvent>>)
                       /\ pc' = "done"
                  ELSE /\ Emit(<<TurnCompleteEvent(Unwrap(turn_id), last)>>)
                       /\ pc' = "wait_turn"

\* workflow.rs:290-326: the rest of the loop body once try_run_sampling_request
\* has returned (ok: Ok(outcome) or Err; follow_up: outcome.needs_follow_up;
\* msg: outcome.last_agent_message), up to the next suspension point
AfterSampling(ok, follow_up, msg) ==
    LET last == IF ok /\ IsSome(msg) THEN msg ELSE last_agent_message
        continue == ok /\ follow_up /\ ~CapReached(iterations + 1)
    IN /\ iterations' = iterations + 1
       /\ total_iterations' = total_iterations + 1
       /\ last_agent_message' = last
       /\ sampling_msg' = None
       /\ turn_stats' = AfterRequest(continue, ok /\ follow_up)
       /\ IF continue
          THEN /\ pc' = "model_call"
               /\ UNCHANGED <<events, emitted, turn_id>>
          ELSE /\ turn_id' = None
               /\ IF shutdown_requested
                  THEN /\ Emit(<<TurnCompleteEvent(Unwrap(turn_id), last),
                                 ShutdownCompleteEvent>>)
                       /\ pc' = "done"
                  ELSE /\ Emit(<<TurnCompleteEvent(Unwrap(turn_id), last)>>)
                       /\ pc' = "wait_turn"

\* (variant) user_turns.pop(): the newest turn first
Remove0_Pop(q) == [turn |-> q[Len(q)], rest |-> SubSeq(q, 1, Len(q) - 1)]

\* workflow.rs:210: user_turns.remove(0)
Remove0(q) == [turn |-> Head(q), rest |-> Tail(q)]

\* (variant) a requested shutdown leaves the loop whatever is queued
ExitAtWait_IgnoresQueue == shutdown_requested

\* workflow.rs:201-207: break if shutdown was requested and no turn is queued
ExitAtWait == shutdown_requested /\ user_turns = <<>>

\* workflow.rs:196-257: wait_condition is over; exit, or dequeue a turn, emit
\* TurnStarted and issue the first model call
LoopWake ==
    /\ LoopWakeEnabled
    /\ IF ExitAtWait
       THEN /\ Emit(<<ShutdownCompleteEvent>>)
            /\ pc' = "done"
            /\ UNCHANGED <<user_turns, turn_id, iterations, turn_stats>>
       ELSE /\ user_turns' = Remove0(user_turns).rest
            /\ turn_id' = Some(Remove0(user_turns).turn)
            /\ turn_stats' = IssueRequest(Remove0(user_turns).turn)
            /\ Emit(<<TurnStartedEvent(Remove0(user_turns).turn)>>)
            /\ iterations' = 0
            /\ pc' = "model_call"
    /\ UNCHANGED <<avars, xvars>>
    /\ UNCHANGED <<approval_policy, call_args, pending_approval, shutdown_requested,
                   total_iterations, last_agent_message, handlers, outputs,
                   sampling_msg, safe_calls, query_result, enqueued,
                   next_call, dispatched, approved_applied, shutdown_during, decision_read>>
    /\ running' = WfEnabled'

\* streamer.rs:58-87 and workflow.rs:277-288: the model_call activity returns.
\* failed: the activity failed (stream returns Err); has_msg: the response holds
\* an agent message; n: the number of tool calls in it; safe: those of them whose
\* command is known safe
ModelCallReturn(failed, has_msg, n, safe) ==
    LET calls == next_call .. (next_call + n - 1)
        msg == IF has_msg THEN turn_id ELSE None
    IN /\ ~running /\ pc = "model_call"
       /\ next_call + n - 1 <= MaxCalls
       /\ safe \subseteq calls
       /\ failed => (~has_msg /\ n = 0)
       /\ approval_policy # "UnlessTrusted" => safe = {}
       /\ IF failed THEN /\ AfterSampling(FALSE, FALSE, None)
                         /\ UNCHANGED <<handlers, next_call, safe_calls>>
          ELSE IF n = 0 THEN /\ AfterSampling(TRUE, FALSE, msg)
                             /\ UNCHANGED <<handlers, next_call, safe_calls>>
          ELSE /\ handlers' = [c \in CallIds |->
                                 IF c \in calls THEN "created" ELSE handlers[c]]
               /\ next_call' = next_call + n
               /\ safe_calls' = safe_calls \cup safe
               /\ sampling_msg' = msg
               /\ pc' = "tools"
               /\ UNCHANGED <<events, emitted, turn_id, iterations, total_iterations,
                              last_agent_message, turn_stats>>
       /\ UNCHANGED <<avars, xvars>>
       /\ UNCHANGED <<approval_policy, call_args, user_turns, pending_approval,
                      shutdown_requested, outputs, query_result,
                      enqueued, dispatched, approved_applied, shutdown_during, decision_read>>
       /\ running' = WfEnabled'

\* tools.rs:96-137 (first poll of the future): decide whether approval is needed;
\* if so set pending_approval, emit ExecApprovalRequest and suspend in
\* wait_condition; if not, start the activity
HandlerStart(c) ==
    /\ HandlerStartEnabled(c)
    /\ IF NeedsApproval(c)
       THEN /\ pending_approval' = Some(PendingApproval(c, None))
            /\ Emit(<<ExecApprovalRequestEvent(Unwrap(turn_id), c)>>)
            /\ handlers' = [handlers EXCEPT ![c] = "awaiting_approval"]
            /\ UNCHANGED dispatched
       ELSE /\ DispatchToolExec(c)
            /\ UNCHANGED <<pending_approval, events, emitted>>
    /\ UNCHANGED <<avars, xvars>>
    /\ UNCHANGED <<approval_policy, call_args, turn_stats, user_turns, shutdown_requested, pc, turn_id,
                   iterations, total_iterations, last_agent_message, outputs,
                   sampling_msg, safe_calls, query_result, enqueued,
                   next_call, approved_applied, shutdown_during, decision_read>>
    /\ running' = WfEnabled'

\* tools.rs:139-171: the wait is over; read and clear the decision, then return
\* the denial or start the activity
HandlerResume(c) ==
    /\ HandlerResumeEnabled(c)
    /\ pending_approval' = ClearedPending
    /\ decision_read' = [decision_read EXCEPT ![c] = Some(pending_approval)]
    /\ IF ~DecisionRead
       THEN /\ handlers' = [handlers EXCEPT ![c] = "returned"]
            /\ outputs' = [outputs EXCEPT ![c] = Some(denied_response(c))]
            /\ UNCHANGED dispatched
       ELSE /\ DispatchToolExec(c)
            /\ UNCHANGED outputs
    /\ UNCHANGED <<avars, xvars>>
    /\ UNCHANGED <<approval_policy, call_args, turn_stats, user_turns, shutdown_requested, events, pc,
                   turn_id, iterations, total_iterations, last_agent_message,
                   sampling_msg, safe_calls, query_result, emitted,
                   enqueued, next_call, approved_applied, shutdown_during>>
    /\ running' = WfEnabled'

\* tools.rs:168-173: the tool_exec activity returns; failed: start_activity's
\* future yields Err (mapped to CodexErr::Fatal); else a ToolExecOutput
ToolExecReturn(c, failed, exit_code) ==
    /\ ~running
    /\ handlers[c] = "awaiting_activity"
    /\ failed => exit_code = 1
    /\ IF failed
       THEN /\ handlers' = [handlers EXCEPT ![c] = "failed"]
            /\ UNCHANGED outputs
       ELSE /\ handlers' = [handlers EXCEPT ![c] = "returned"]
            /\ outputs' = [outputs EXCEPT ![c] = Some(into_response_input_item(c, exit_code))]
    /\ UNCHANGED <<avars, xvars>>
    /\ UNCHANGED <<approval_policy, call_args, turn_stats, user_turns, pending_approval, shutdown_requested,
                   events, pc, turn_id, iterations, total_iterations,
                   last_agent_message, sampling_msg, safe_calls, running,
                   query_result, emitted, enqueued, next_call,
                   dispatched, approved_applied, shutdown_during, decision_read>>

\* workflow.rs:277-311: every tool future of the response has completed, so
\* try_run_sampling_request returns: Err if a handler returned Err, else an
\* outcome that needs a follow-up (the response held tool calls)
SamplingDone ==
    /\ SamplingDoneEnabled
    /\ handlers' = [c \in CallIds |-> "none"]
    /\ outputs' = [c \in CallIds |-> None]
    /\ AfterSampling(\A c \in CallIds : handlers[c] # "failed", TRUE, sampling_msg)
    /\ UNCHANGED <<avars, xvars>>
    /\ UNCHANGED <<approval_policy, call_args, user_turns, pending_approval, shutdown_requested,
                   safe_calls, query_result, enqueued,
                   next_call, dispatched, approved_applied, shutdown_during, decision_read>>
    /\ running' = WfEnabled'

\* (variant) the result carries the counter of the last turn
CodexWorkflowOutput_LastTurn ==
    [last_agent_message |-> last_agent_message, iterations |-> iterations]

\* workflow.rs:337-340: what run() returns, once pc = "done"
CodexWorkflowOutput ==
    [last_agent_message |-> last_agent_message, iterations |-> total_iterations]

\* ------------------------------------------------------------------- Next
WorkflowStep ==
    \/ LoopWake
    \/ \E c \in CallIds : HandlerStart(c)
    \/ \E c \in CallIds : HandlerResume(c)
    \/ SamplingDone

ActivityReturn ==
    \/ \E failed, has_msg \in BOOLEAN, n \in 0..MaxCalls :
          \E safe \in SUBSET CallIds : ModelCallReturn(failed, has_msg, n, safe)
    \/ \E c \in CallIds, failed \in BOOLEAN, exit_code \in {0, 1} :
          ToolExecReturn(c, failed, exit_code)

Signal ==
    /\ \/ ReceiveUserTurn
       \/ \E c \in CallIds, approved \in BOOLEAN : ReceiveApproval(c, approved)
       \/ RequestShutdown
    /\ UNCHANGED <<avars, xvars>>

\* session.rs:192-203: the adapter polls from the watermark it was last given
LastWatermark == IF IsSome(query_result) THEN Unwrap(query_result).watermark ELSE 0

Query ==
    \/ GetEventsSince(LastWatermark) /\ UNCHANGED <<avars, xvars>>
    \/ GetEvents

Next == WorkflowStep \/ ActivityReturn \/ Signal

Spec == Init /\ [][Next]_vars

\* Scheduling the engine guarantees: workflow code that can run is run, and a
\* dispatched activity returns (with a result or, at its timeout, an error)
FairSpec == Spec /\ WF_vars(WorkflowStep) /\ WF_vars(ActivityReturn)

\* the client answers the approval request that is pending
AnswerApproval ==
    /\ IsSome(pending_approval)
    /\ Unwrap(pending_approval).decision = None
    /\ \E approved \in BOOLEAN :
          ReceiveApproval(Unwrap(pending_approval).call_id, approved)
    /\ UNCHANGED <<avars, xvars>>

\* FairSpec with a client that answers every approval request
LiveSpec == FairSpec /\ WF_vars(AnswerApproval)

\* the workflow with its two queries
NextQuery == Next \/ Query
InitQuery == Init /\ approval_policy = "OnRequest" /\ user_turns # <<>>
QuerySpec == InitQuery /\ [][NextQuery]_vars

\* ------------------------------------------- the event buffer on its own
SinkEvents ==
    {TurnStartedEvent(0), ExecApprovalRequestEvent(0, 1), TurnCompleteEvent(0, None),
     ShutdownCompleteEvent}

RECURSIVE SeqsUpTo(_, _)
SeqsUpTo(S, n) ==
    IF n = 0 THEN {<<>>}
    ELSE LET shorter == SeqsUpTo(S, n - 1)
         IN shorter \cup {Append(q, e) : q \in {r \in shorter : Len(r) = n - 1}, e \in S}

SinkInit ==
    /\ events \in SeqsUpTo(SinkEvents, MaxLen)
    /\ emitted = events
    /\ approval_policy = "Never"
    /\ user_turns = <<>>
    /\ enqueued = <<>>
    /\ pending_approval = None
    /\ shutdown_requested = FALSE
    /\ pc = "done"
    /\ turn_id = None
    /\ iterations = 0
    /\ total_iterations = 0
    /\ last_agent_message = None
    /\ handlers = [c \in CallIds |-> "none"]
    /\ outputs = [c \in CallIds |-> None]
    /\ sampling_msg = None
    /\ safe_calls = {}
    /\ running = FALSE
    /\ query_result = None
    /\ next_call = 1
    /\ dispatched = {}
    /\ approved_applied = {}
    /\ shutdown_during = {}
    /\ decision_read = [c \in CallIds |-> None]
    /\ turn_stats = [t \in TurnIds |-> NoRequests]
    /\ SessionNew
    /\ HostIdle
    /\ reconnected = FALSE
    /\ call_args = [c \in CallIds |-> NoArguments]

\* sink.rs:53-55
EmitEventSync(e) ==
    /\ Len(emitted) < MaxLen
    /\ Emit(<<e>>)
    /\ UNCHANGED <<avars, xvars>>
    /\ UNCHANGED <<approval_policy, call_args, turn_stats, user_turns, pending_approval, shutdown_requested,
                   pc, turn_id, iterations, total_iterations, last_agent_message,
                   handlers, outputs, sampling_msg, safe_calls, running, query_result,
                   enqueued, next_call, dispatched, approved_applied, shutdown_during,
                   decision_read>>

SinkNext ==
    \/ \E e \in SinkEvents : EmitEventSync(e)
    \/ \E k \in 0..(MaxLen + 1) : GetEventsSince(k) /\ UNCHANGED <<avars, xvars>>
    \/ GetEvents

SinkSpec == SinkInit /\ [][SinkNext]_vars

\* ------------------------------------------------ the adapter: next_event
\* the workflow's part of the state
wvars == <<approval_policy, call_args, user_turns, pending_approval, shutdown_requested, events,
           pc, turn_id, iterations, total_iterations, last_agent_message, handlers,
           outputs, sampling_msg, safe_calls, running, query_result,
           emitted, enqueued, next_call, dispatched, approved_applied, shutdown_during,
           decision_read, turn_stats>>

\* serde_json::from_str::<Event>(json_str): the event, or an error
Deserialize(j) == IF "json" \in DOMAIN j THEN Some(j.json) ELSE None

\* session.rs:224-230: the events that parse, in order
RECURSIVE ParseEvents(_)
ParseEvents(js) ==
    IF js = <<>> THEN <<>>
    ELSE LET r == Deserialize(Head(js))
         IN (IF IsSome(r) THEN <<Unwrap(r)>> ELSE <<>>) \o ParseEvents(Tail(js))

\* next_event returns event e to caller k
Deliver(k, e, synthesized) ==
    delivered' = Append(delivered, [caller |-> k, event |-> e, synthesized |-> synthesized])

\* session.rs:295-301: the local buffer first
NextEventBegin(k) ==
    /\ ne[k].pc = "idle"
    /\ IF event_buffer # <<>>
       THEN /\ Deliver(k, Head(event_buffer), FALSE)
            /\ event_buffer' = Tail(event_buffer)
            /\ UNCHANGED ne
       ELSE /\ ne' = [ne EXCEPT ![k].pc = "loop"]
            /\ UNCHANGED <<delivered, event_buffer>>
    /\ UNCHANGED <<started, events_index, turn_counter, shutdown, sub, query_failures,
                   reconnected, xvars>>
    /\ UNCHANGED wvars

\* session.rs:308-313 and 192: the loop goes on to poll once started is true, and
\* poll_events reads the watermark
PollReadIndex(k) ==
    /\ ne[k].pc = "loop"
    /\ started
    /\ ne' = [ne EXCEPT ![k].pc = "querying", ![k].from_index = events_index]
    /\ UNCHANGED <<started, events_index, event_buffer, turn_counter, shutdown, sub,
                   delivered, query_failures, reconnected, xvars>>
    /\ UNCHANGED wvars

\* session.rs:198-207: the engine answers the query get_events_since(from_index)
PollQueryOk(k) ==
    /\ ne[k].pc = "querying"
    /\ pc # "unstarted"
    /\ GetEventsSince(ne[k].from_index)
    /\ ne' = [ne EXCEPT ![k].pc = "got", ![k].result = query_result']
    /\ UNCHANGED <<started, events_index, event_buffer, turn_counter, shutdown, sub,
                   delivered, query_failures, reconnected, xvars>>

\* session.rs:215-217
Watermark(from_index, result) == result.watermark

\* session.rs:209-235: parse the response and store the watermark
PollStore(k) ==
    /\ ne[k].pc = "got"
    /\ LET result == Unwrap(ne[k].result)
       IN /\ events_index' = Watermark(ne[k].from_index, result)
          /\ ne' = [ne EXCEPT ![k].pc = "polled",
                              ![k].result = Some(ParseEvents(result.events))]
    /\ UNCHANGED <<started, event_buffer, turn_counter, shutdown, sub,
                   delivered, query_failures, reconnected, xvars>>
    /\ UNCHANGED wvars

\* session.rs:316-325: extend the buffer and return its head, or back off
NextEventReturn(k) ==
    /\ ne[k].pc = "polled"
    /\ LET evs == Unwrap(ne[k].result)
           buf == event_buffer \o evs
       IN IF evs # <<>>
          THEN /\ Deliver(k, Head(buf), FALSE)
               /\ event_buffer' = Tail(buf)
               /\ ne' = [ne EXCEPT ![k] = NeIdle]
          ELSE /\ ne' = [ne EXCEPT ![k].pc = "loop", ![k].result = None]
               /\ UNCHANGED <<delivered, event_buffer>>
    /\ UNCHANGED <<started, events_index, turn_counter, shutdown, sub, query_failures,
                   reconnected, xvars>>
    /\ UNCHANGED wvars

\* (variant) a failed poll always ends the stream
SynthesizeOnFailure_Always == TRUE

\* session.rs:328-329
SynthesizeOnFailure == shutdown

\* session.rs:205-207 and 326-338: the query fails; a ShutdownComplete is made up
\* when the local shutdown flag is set, else the loop backs off and polls again
PollQueryFail(k) ==
    /\ ne[k].pc = "querying"
    /\ query_failures < MaxQueryFailures
    /\ query_failures' = query_failures + 1
    /\ IF SynthesizeOnFailure
       THEN /\ Deliver(k, ShutdownCompleteEvent, TRUE)
            /\ ne' = [ne EXCEPT ![k] = NeIdle]
       ELSE /\ ne' = [ne EXCEPT ![k].pc = "loop"]
            /\ UNCHANGED delivered
    /\ UNCHANGED <<started, events_index, event_buffer, turn_counter, shutdown, sub,
                   reconnected, xvars>>
    /\ UNCHANGED wvars

\* next_event while the engine answers every query
NextEventPolling(k) ==
    \/ NextEventBegin(k)
    \/ PollReadIndex(k)
    \/ PollQueryOk(k)
    \/ PollStore(k)
    \/ NextEventReturn(k)

NextEvent(k) ==
    \/ NextEventPolling(k)
    \/ PollQueryFail(k)

\* ---------------------------------------------------- the adapter: submit
ReviewDecision ==
    {"Approved", "ApprovedExecpolicyAmendment", "ApprovedForSession", "Denied", "Abort"}

Op(kind, id, decision) == [kind |-> kind, id |-> id, decision |-> decision]
Ok(v) == [ok |-> TRUE, value |-> v]
Err(v) == [ok |-> FALSE, value |-> v]

\* codex_protocol::user_input::UserInput: a text item, or an item of another kind
Text(text) == [kind |-> "Text", text |-> text]
LocalImage == [kind |-> "LocalImage"]
\* the items of a submit(Op::UserTurn), as samples
UserInputs == {<<>>, <<LocalImage>>, <<Text("")>>, <<Text("hello")>>,
               <<LocalImage, Text("hello")>>, <<Text("hello"), LocalImage, Text("world")>>}

\* session.rs:66-75: the text items' texts, joined by newlines
RECURSIVE Join(_)
Join(texts) ==
    IF texts = <<>> THEN ""
    ELSE IF Len(texts) = 1 THEN texts[1]
    ELSE texts[1] \o "\n" \o Join(Tail(texts))
IsTextItem(item) == item.kind = "Text"
extract_message(items) ==
    LET texts == SelectSeq(items, IsTextItem)
    IN Join([i \in 1..Len(texts) |-> texts[i].text])

\* the engine knows a running workflow under workflow_id
WorkflowLive == pc \notin {"unstarted", "done"}

\* session.rs:102-105 at the engine: a workflow is created from the input, whose
\* user_message seeds turn-0 (workflow.rs:65-84)
EngineStart(user_message) ==
    /\ pc = "unstarted"
    /\ pc' = "wait_turn"
    /\ user_turns' = (IF user_message = "" THEN <<>> ELSE <<0>>)
    /\ enqueued' = user_turns'
    /\ UNCHANGED <<approval_policy, call_args, turn_stats, pending_approval, shutdown_requested, events,
                   turn_id, iterations, total_iterations, last_agent_message, handlers,
                   outputs, sampling_msg, safe_calls, query_result, emitted, next_call,
                   dispatched, approved_applied, shutdown_during, decision_read>>
    /\ running' = WfEnabled'

\* the submit calls that have yet to take their turn id
UncountedTurns == Cardinality({j \in Submitters : sub[j].pc \in {"start", "signal_turn"}})

\* session.rs:243-251: submit(UserTurn) reads started and branches
SubmitUserTurn(j) ==
    /\ sub[j].pc = "idle"
    /\ turn_counter + UncountedTurns <= MaxTurns
    /\ sub' = [sub EXCEPT ![j] = [pc |-> IF started THEN "signal_turn" ELSE "start",
                                  op |-> Some(Op("UserTurn", None, None)),
                                  turn |-> 0, sent |-> <<>>, ret |-> None]]
    /\ UNCHANGED <<started, events_index, event_buffer, turn_counter, shutdown, ne,
                   delivered, query_failures, reconnected, xvars>>
    /\ UNCHANGED wvars

\* session.rs:86-90 (start_workflow) and 78-82 (next_turn_id)
TakeTurnId(j) ==
    /\ sub[j].pc \in {"start", "signal_turn"}
    /\ turn_counter' = turn_counter + 1
    /\ sub' = [sub EXCEPT ![j].pc = IF sub[j].pc = "start" THEN "start_call"
                                    ELSE "signal_call",
                          ![j].turn = turn_counter + 1]
    /\ UNCHANGED <<started, events_index, event_buffer, shutdown, ne,
                   delivered, query_failures, reconnected, xvars>>
    /\ UNCHANGED wvars

\* session.rs:100-105: the engine starts the workflow, or refuses because a
\* workflow with this id is running already
StartWorkflow(j, message) ==
    /\ sub[j].pc = "start_call"
    /\ pc # "done"
    /\ LET sent == Append(sub[j].sent, [req |-> "start_workflow", user_message |-> message])
       IN IF pc = "unstarted"
          THEN /\ EngineStart(message)
               /\ sub' = [sub EXCEPT ![j].pc = "start_ok", ![j].sent = sent]
          ELSE /\ sub' = [sub EXCEPT ![j].pc = "idle", ![j].sent = sent,
                                     ![j].ret = Some(Err("failed to start workflow"))]
               /\ UNCHANGED wvars
    /\ UNCHANGED <<started, events_index, event_buffer, turn_counter, shutdown, ne,
                   delivered, query_failures, reconnected, xvars>>

\* the first submit(UserTurn) of a client that sends text
StartWorkflowCall(j) == StartWorkflow(j, extract_message(<<Text("hello")>>))

\* the first submit(UserTurn) with any of the sample inputs
StartWorkflowCallAny(j) == \E items \in UserInputs : StartWorkflow(j, extract_message(items))

\* session.rs:107-115
StartWorkflowDone(j) ==
    /\ sub[j].pc = "start_ok"
    /\ started' = TRUE
    /\ sub' = [sub EXCEPT ![j].pc = "idle", ![j].ret = Some(Ok(sub[j].turn))]
    /\ UNCHANGED <<events_index, event_buffer, turn_counter, shutdown, ne,
                   delivered, query_failures, reconnected, xvars>>
    /\ UNCHANGED wvars

\* session.rs:122-140: the signal receive_user_turn{turn_id, message}
SignalUserTurnCall(j) ==
    /\ sub[j].pc = "signal_call"
    /\ LET sent == Append(sub[j].sent, [req |-> "receive_user_turn", turn_id |-> sub[j].turn])
       IN IF WorkflowLive
          THEN /\ ReceiveUserTurnInput(sub[j].turn)
               /\ sub' = [sub EXCEPT ![j].pc = "idle", ![j].sent = sent,
                                     ![j].ret = Some(Ok(sub[j].turn))]
          ELSE /\ sub' = [sub EXCEPT ![j].pc = "idle", ![j].sent = sent,
                                     ![j].ret = Some(Err("failed to signal user turn"))]
               /\ UNCHANGED wvars
    /\ UNCHANGED <<started, events_index, event_buffer, turn_counter, shutdown, ne,
                   delivered, query_failures, reconnected, xvars>>

\* (variant) only a plain Approved counts as an approval
Normalize_OnlyApproved(decision) == decision = "Approved"

\* session.rs:254-259
Normalize(decision) ==
    decision \in {"Approved", "ApprovedForSession", "ApprovedExecpolicyAmendment"}

\* session.rs:253-261 and 144-168: the signal receive_approval{call_id, approved}
SubmitExecApproval(j, id, decision) ==
    /\ sub[j].pc = "idle"
    /\ LET approved == Normalize(decision)
           call == [pc |-> "idle", op |-> Some(Op("ExecApproval", Some(id), Some(decision))),
                    turn |-> 0,
                    sent |-> <<[req |-> "receive_approval", call_id |-> id,
                                approved |-> approved]>>,
                    ret |-> None]
       IN IF WorkflowLive
          THEN /\ ReceiveApproval(id, approved)
               /\ sub' = [sub EXCEPT ![j] = [call EXCEPT !.ret = Some(Ok(id))]]
          ELSE /\ sub' = [sub EXCEPT ![j] =
                            [call EXCEPT !.ret = Some(Err("failed to signal approval"))]]
               /\ UNCHANGED wvars
    /\ UNCHANGED <<started, events_index, event_buffer, turn_counter, shutdown, ne,
                   delivered, query_failures, reconnected, xvars>>

\* (variant) the shutdown flag is set before the signal is sent
SubmitShutdown_FlagFirst(j) ==
    /\ sub[j].pc = "idle"
    /\ shutdown' = TRUE
    /\ LET call == [pc |-> "shutdown_ok", op |-> Some(Op("Shutdown", None, None)),
                    turn |-> 0, sent |-> <<[req |-> "request_shutdown"]>>, ret |-> None]
       IN IF WorkflowLive
          THEN /\ RequestShutdown
               /\ sub' = [sub EXCEPT ![j] = call]
          ELSE /\ sub' = [sub EXCEPT ![j] =
                            [call EXCEPT !.pc = "idle",
                                         !.ret = Some(Err("failed to signal shutdown"))]]
               /\ UNCHANGED wvars
    /\ UNCHANGED <<started, events_index, event_buffer, turn_counter, ne,
                   delivered, query_failures, reconnected, xvars>>

\* session.rs:263 and 171-183: the signal request_shutdown
SubmitShutdown(j) ==
    /\ sub[j].pc = "idle"
    /\ LET call == [pc |-> "shutdown_ok", op |-> Some(Op("Shutdown", None, None)),
                    turn |-> 0, sent |-> <<[req |-> "request_shutdown"]>>, ret |-> None]
       IN IF WorkflowLive
          THEN /\ RequestShutdown
               /\ sub' = [sub EXCEPT ![j] = call]
          ELSE /\ sub' = [sub EXCEPT ![j] =
                            [call EXCEPT !.pc = "idle",
                                         !.ret = Some(Err("failed to signal shutdown"))]]
               /\ UNCHANGED wvars
    /\ UNCHANGED <<started, events_index, event_buffer, turn_counter, shutdown, ne,
                   delivered, query_failures, reconnected, xvars>>

\* session.rs:185-187
SubmitShutdownDone(j) ==
    /\ sub[j].pc = "shutdown_ok"
    /\ shutdown' = TRUE
    /\ sub' = [sub EXCEPT ![j].pc = "idle", ![j].ret = Some(Ok("shutdown"))]
    /\ UNCHANGED <<started, events_index, event_buffer, turn_counter, ne,
                   delivered, query_failures, reconnected, xvars>>
    /\ UNCHANGED wvars

\* the ops submit does nothing for: Interrupt, the listed TUI ops, and any other
NoopKinds == {"Interrupt", "ListSkills", "Other"}

\* (variant) an Interrupt is passed on to the workflow as a shutdown request
NoopSends_InterruptShutsDown(kind) ==
    IF kind = "Interrupt" THEN <<[req |-> "request_shutdown"]>> ELSE <<>>

\* session.rs:265-290: nothing is sent
NoopSends(kind) == <<>>

\* session.rs:265-290
SubmitNoop(j, kind) ==
    /\ sub[j].pc = "idle"
    /\ sub' = [sub EXCEPT ![j] =
                 [pc |-> "idle", op |-> Some(Op(kind, None, None)), turn |-> 0,
                  sent |-> NoopSends(kind),
                  ret |-> Some(Ok(IF kind = "Interrupt" THEN "interrupt-noop" ELSE "noop"))]]
    /\ UNCHANGED <<started, events_index, event_buffer, turn_counter, shutdown, ne,
                   delivered, query_failures, reconnected, xvars>>
    /\ UNCHANGED wvars

Submit(j) ==
    \/ SubmitUserTurn(j)
    \/ TakeTurnId(j)
    \/ StartWorkflowCall(j)
    \/ StartWorkflowDone(j)
    \/ SignalUserTurnCall(j)
    \/ \E id \in CallIds, decision \in ReviewDecision : SubmitExecApproval(j, id, decision)
    \/ SubmitShutdown(j)
    \/ SubmitShutdownDone(j)
    \/ \E kind \in NoopKinds : SubmitNoop(j, kind)

\* ------------------------------------------- the adapter with its workflow
\* a new adapter whose base_input has one of the policies, and either no
\* workflow under its workflow_id yet, or (attached: the adapter of a restarted
\* client) a workflow that is running already
AdapterStart(policies, attached) ==
    /\ SessionNew
    /\ approval_policy \in policies
    /\ reconnected \in attached
    /\ pc = (IF reconnected THEN "wait_turn" ELSE "unstarted")
    /\ user_turns = (IF reconnected THEN <<0>> ELSE <<>>)
    /\ enqueued = user_turns
    /\ pending_approval = None
    /\ shutdown_requested = FALSE
    /\ events = <<>>
    /\ turn_id = None
    /\ iterations = 0
    /\ total_iterations = 0
    /\ last_agent_message = None
    /\ handlers = [c \in CallIds |-> "none"]
    /\ outputs = [c \in CallIds |-> None]
    /\ sampling_msg = None
    /\ safe_calls = {}
    /\ running = FALSE
    /\ query_result = None
    /\ emitted = <<>>
    /\ next_call = 1
    /\ dispatched = {}
    /\ approved_applied = {}
    /\ shutdown_during = {}
    /\ decision_read = [c \in CallIds |-> None]
    /\ turn_stats = [t \in TurnIds |-> NoRequests]

\* submit(UserTurn), step by step
SubmitTurn(j) ==
    \/ SubmitUserTurn(j)
    \/ TakeTurnId(j)
    \/ StartWorkflowCall(j)
    \/ StartWorkflowDone(j)
    \/ SignalUserTurnCall(j)

\* submit(Shutdown), step by step
SubmitStop(j) ==
    \/ SubmitShutdown(j)
    \/ SubmitShutdownDone(j)

\* the workflow's steps under the policy Never, where no handler waits for an
\* approval
WorkflowStepNever ==
    \/ LoopWake
    \/ \E c \in CallIds : HandlerStart(c)
    \/ SamplingDone

\* the activities of a run in which the model and the tools work: a response
\* with at most one tool call, a tool that exits with 0
ActivitySucceeds ==
    \/ \E has_msg \in BOOLEAN, n \in 0..1 : ModelCallReturn(FALSE, has_msg, n, {})
    \/ \E c \in CallIds : ToolExecReturn(c, FALSE, 0)

\* one client: a task that submits turns and the shutdown, a task that calls
\* next_event
AdapterInit ==
    /\ AdapterStart({"Never"}, {FALSE, TRUE})
    /\ call_args = [c \in CallIds |-> NoArguments]
    /\ HostIdle
AdapterNext ==
    \/ WorkflowStepNever
    \/ ActivitySucceeds
    \/ NextEvent(1)
    \/ SubmitTurn(1)
    \/ SubmitStop(1)
AdapterSpec == AdapterInit /\ [][AdapterNext]_vars

\* the engine runs workflow code that can run, activities return, and the
\* client's next_event call makes progress
AdapterFairSpec ==
    /\ AdapterSpec
    /\ WF_vars(WorkflowStepNever) /\ WF_vars(ActivitySucceeds)
    /\ WF_vars(NextEvent(1))

\* two tasks call next_event on the one adapter; the model answers every turn
\* without a tool call
PollersInit ==
    /\ AdapterStart({"Never"}, {FALSE})
    /\ call_args = [c \in CallIds |-> NoArguments]
    /\ HostIdle
PollersNext ==
    \/ LoopWake
    \/ \E has_msg \in BOOLEAN : ModelCallReturn(FALSE, has_msg, 0, {})
    \/ \E k \in Callers : NextEventPolling(k) /\ Len(delivered') <= MaxDelivered
    \/ SubmitTurn(1)
PollersSpec == PollersInit /\ [][PollersNext]_vars

\* two tasks call submit(UserTurn) on the one adapter
SubmittersInit ==
    /\ AdapterStart({"Never"}, {FALSE})
    /\ call_args = [c \in CallIds |-> NoArguments]
    /\ HostIdle
SubmittersNext ==
    \/ WorkflowStepNever
    \/ ActivitySucceeds
    \/ \E j \in Submitters : SubmitTurn(j)
SubmittersSpec == SubmittersInit /\ [][SubmittersNext]_vars

\* one task submits every kind of op
OpsInit ==
    /\ AdapterStart({"OnRequest"}, {FALSE})
    /\ call_args = [c \in CallIds |-> NoArguments]
    /\ HostIdle
OpsNext ==
    \/ WorkflowStep
    \/ ActivityReturn
    \/ Submit(1)
OpsSpec == OpsInit /\ [][OpsNext]_vars

\* one client submits user turns with any input, text or not, and calls
\* next_event; the model answers every turn without a tool call
InputsInit ==
    /\ AdapterStart({"Never"}, {FALSE})
    /\ call_args = [c \in CallIds |-> NoArguments]
    /\ HostIdle
InputsNext ==
    \/ LoopWake
    \/ \E failed, has_msg \in BOOLEAN : ModelCallReturn(failed, has_msg, 0, {})
    \/ SubmitUserTurn(1)
    \/ TakeTurnId(1)
    \/ StartWorkflowCallAny(1)
    \/ StartWorkflowDone(1)
    \/ SignalUserTurnCall(1)
    \/ NextEvent(1)
InputsSpec == InputsInit /\ [][InputsNext]_vars

\* ------------------------------------ the handler and the call's arguments
\* a workflow with its seeded turn, under any policy; the model gives each tool
\* call one of the sample arguments
ToolsInit ==
    /\ AdapterStart(AskForApproval, {TRUE})
    /\ call_args \in [CallIds -> Arguments]
    /\ HostIdle

\* the model's response, the known-safe calls being those the handler finds so
ModelResponds ==
    \E has_msg \in BOOLEAN, n \in 0..MaxCalls :
        ModelCallReturn(FALSE, has_msg, n,
                        IF approval_policy = "UnlessTrusted"
                        THEN SafeAmong((next_call .. (next_call + n - 1)) \cap CallIds)
                        ELSE {})

ToolsNext ==
    \/ WorkflowStep
    \/ ModelResponds
    \/ \E c \in CallIds : ToolExecReturn(c, FALSE, 0)
    \/ AnswerApproval

ToolsSpec == ToolsInit /\ [][ToolsNext]_vars

\* --------------------------------------------- a turn that never settles
\* streamer.rs:58-87 with a synthetic model that answers every request with one
\* tool call; the model names the call c again once the earlier call c is over
ToolCallResponse(c) ==
    /\ ~running /\ pc = "model_call"
    /\ handlers[c] = "none"
    /\ handlers' = [handlers EXCEPT ![c] = "created"]
    /\ sampling_msg' = None
    /\ pc' = "tools"
    /\ UNCHANGED <<avars, xvars>>
    /\ UNCHANGED <<approval_policy, call_args, turn_stats, user_turns, pending_approval,
                   shutdown_requested, events, turn_id, iterations, total_iterations,
                   last_agent_message, outputs, safe_calls, query_result, emitted,
                   enqueued, next_call, dispatched, approved_applied, shutdown_during,
                   decision_read>>
    /\ running' = WfEnabled'

\* the client sends further turns and the shutdown request
ClientSignals ==
    /\ ReceiveUserTurn \/ RequestShutdown
    /\ UNCHANGED <<avars, xvars>>

\* the activities of the synthetic run: the model asks for a tool, or the
\* model_call activity fails; the tool exits with 0, or tool_exec fails
SyntheticActivities ==
    \/ ToolCallResponse(1)
    \/ ModelCallReturn(TRUE, FALSE, 0, {})
    \/ \E failed \in BOOLEAN : ToolExecReturn(1, failed, IF failed THEN 1 ELSE 0)

CapInit == Init /\ approval_policy = "Never" /\ user_turns # <<>>
CapNext ==
    \/ WorkflowStepNever
    \/ SyntheticActivities
    \/ ClientSignals
CapSpec == CapInit /\ [][CapNext]_vars

\* ------------------------------------- the tool_exec activity at the worker
\* tools.rs:164: ActivityOptions.heartbeat_timeout, in seconds
HEARTBEAT_TIMEOUT == 30

\* ToolExecOutput { call_id, output, exit_code }
ToolExecOutput(c, text, code) == [call_id |-> c, output |-> text, exit_code |-> code]

\* what ToolRegistry::dispatch can return: a ResponseInputItem of one of the
\* kinds extract_tool_output tells apart (FunctionCallOutput with its optional
\* success flag, CustomToolCallOutput, any other), or a FunctionCallError
RegistryResults ==
    {Ok([type |-> "FunctionCallOutput", success |-> ok]) : ok \in {None, Some(TRUE), Some(FALSE)}}
    \cup {Ok([type |-> "CustomToolCallOutput"]), Ok([type |-> "McpToolCallOutput"])}
    \cup {Err("unsupported call")}

\* activities.rs:261-279
extract_tool_output(item) ==
    CASE item.type = "FunctionCallOutput" ->
            LET success == IF IsSome(item.success) THEN Unwrap(item.success) ELSE TRUE
            IN [output |-> "text", exit_code |-> IF success THEN 0 ELSE 1]
      [] item.type = "CustomToolCallOutput" -> [output |-> "output", exit_code |-> 0]
      [] OTHER -> [output |-> "debug", exit_code |-> 0]

\* (variant) a dispatch failure is passed on as the activity's error
dispatch_tool_RaisesDispatchError(c, config_ok, dispatched_as) ==
    IF ~config_ok THEN Err("failed to build config")
    ELSE IF dispatched_as.ok
    THEN LET out == extract_tool_output(dispatched_as.value)
         IN Ok(ToolExecOutput(c, out.output, out.exit_code))
    ELSE Err("tool dispatch error")

\* activities.rs:176-258: config_ok: Config::for_harness succeeded;
\* dispatched_as: what registry.dispatch(invocation) returned
dispatch_tool(c, config_ok, dispatched_as) ==
    IF ~config_ok THEN Err("failed to build config")
    ELSE IF dispatched_as.ok
    THEN LET out == extract_tool_output(dispatched_as.value)
         IN Ok(ToolExecOutput(c, out.output, out.exit_code))
    ELSE Ok(ToolExecOutput(c, "tool dispatch error", 1))

\* activities.rs:156-169: the activity's result; the ActivityContext is unused
tool_exec(c, config_ok, dispatched_as) ==
    LET r == dispatch_tool(c, config_ok, dispatched_as)
    IN IF r.ok THEN r ELSE Err("tool_exec failed")

\* tools.rs:168-173: what the handler makes of the activity's outcome
HandlerResult(outcome) ==
    IF outcome.ok
    THEN Ok(into_response_input_item(outcome.value.call_id, outcome.value.exit_code))
    ELSE Err("CodexErr::Fatal: tool_exec activity failed")

\* tools.rs:156-171: the handler has scheduled tool_exec for call c
ToolExecScheduled(c, config_ok) ==
    [pc |-> "scheduled", call_id |-> c, config_ok |-> config_ok,
     elapsed |-> 0, last_heartbeat |-> 0, heartbeats |-> 0, cancel_requested |-> FALSE,
     dispatched_as |-> None, closed_by |-> None, outcome |-> None, handler_result |-> None]

\* everything but the tool_exec task stays as it is
ToolExecFrame == UNCHANGED <<wvars, avars, model_task, random_sources, clock, runs>>

\* activities.rs:156-166: a worker takes the task and calls dispatch_tool
ToolExecBegin ==
    /\ tool_task.pc = "scheduled"
    /\ tool_task' = [tool_task EXCEPT !.pc = "running"]
    /\ ToolExecFrame

\* a second passes while the tool runs; the engine's heartbeat timer fires no
\* later than HEARTBEAT_TIMEOUT after the start or the last heartbeat
ToolExecTick ==
    /\ tool_task.pc = "running"
    /\ tool_task.elapsed - tool_task.last_heartbeat < HEARTBEAT_TIMEOUT
    /\ tool_task' = [tool_task EXCEPT !.elapsed = @ + 1]
    /\ ToolExecFrame

\* the engine is asked to cancel the activity (its workflow no longer wants it)
ToolExecCancelRequested ==
    /\ tool_task.pc = "running"
    /\ ~tool_task.cancel_requested
    /\ tool_task' = [tool_task EXCEPT !.cancel_requested = TRUE]
    /\ ToolExecFrame

\* activities.rs:166-168 and 241-257: registry.dispatch returns and the activity
\* returns what tool_exec makes of it
ToolExecReturns(dispatched_as) ==
    /\ tool_task.pc = "running"
    /\ tool_task' = [tool_task EXCEPT
                       !.pc = "closed",
                       !.dispatched_as = Some(dispatched_as),
                       !.closed_by = Some("activity"),
                       !.outcome = Some(tool_exec(tool_task.call_id, tool_task.config_ok,
                                                  dispatched_as))]
    /\ ToolExecFrame

\* the engine: no heartbeat for HEARTBEAT_TIMEOUT seconds, the activity is failed
ToolExecHeartbeatTimeout ==
    /\ tool_task.pc = "running"
    /\ tool_task.elapsed - tool_task.last_heartbeat >= HEARTBEAT_TIMEOUT
    /\ tool_task' = [tool_task EXCEPT !.pc = "closed",
                                      !.closed_by = Some("engine"),
                                      !.outcome = Some(Err("heartbeat timeout"))]
    /\ ToolExecFrame

\* tools.rs:168-173: the handler's await is over
ToolExecAwaited ==
    /\ tool_task.pc = "closed"
    /\ tool_task' = [tool_task EXCEPT
                       !.pc = "awaited",
                       !.handler_result = Some(HandlerResult(Unwrap(tool_task.outcome)))]
    /\ ToolExecFrame

\* no workflow, no adapter call, no other activity
ExecInit ==
    /\ AdapterStart({"Never"}, {FALSE})
    /\ call_args = [c \in CallIds |-> NoArguments]
    /\ \E c \in CallIds, config_ok \in BOOLEAN : tool_task = ToolExecScheduled(c, config_ok)
    /\ model_task = NoTask
    /\ random_sources = NoTask
    /\ clock = NoTask
    /\ runs = NoTask
ExecNext ==
    \/ ToolExecBegin
    \/ ToolExecTick
    \/ ToolExecCancelRequested
    \/ \E r \in RegistryResults : ToolExecReturns(r)
    \/ ToolExecHeartbeatTimeout
    \/ ToolExecAwaited
ExecSpec == ExecInit /\ [][ExecNext]_vars

\* --------------------------------------------- the model-call activities
\* HTTP status codes the provider may answer with
Statuses == {200, 201, 301, 400, 401, 404, 429, 499, 500, 503, 599}

\* what the activity meets when it runs: whether OPENAI_API_KEY is set, the
\* tools serialize, the request gets an answer, the answer's status, and
\* whether the body parses
ModelCallEnv ==
    [api_key_set : BOOLEAN, tools_ok : BOOLEAN, network_ok : BOOLEAN,
     status : Statuses, body_ok : BOOLEAN]

\* ActivityError::Retryable { .. } and ActivityError::NonRetryable(..)
Retryable == Err("Retryable")
NonRetryable == Err("NonRetryable")

\* response.status().is_success()
IsSuccess(status) == status >= 200 /\ status <= 299

\* activities/model.rs:96
RetryableStatus(status) == status >= 500 \/ status = 429

\* activities/model.rs:37-159
invoke_model_activity(env) ==
    IF ~env.api_key_set THEN NonRetryable
    ELSE IF ~env.tools_ok THEN NonRetryable
    ELSE IF ~env.network_ok THEN Retryable
    ELSE IF ~IsSuccess(env.status)
    THEN (IF RetryableStatus(env.status) THEN Retryable ELSE NonRetryable)
    ELSE IF ~env.body_ok THEN NonRetryable
    ELSE Ok("ModelOutput")

\* activities.rs:130 and 141: an anyhow::Error turned into an ActivityError by
\* `?` and `.into()`; temporalio_sdk's From impl makes it Retryable
FromAnyhow == Retryable

\* the codex client's stream fails (ModelClientSession::stream or an Err event)
StreamFails(env) ==
    \/ ~env.api_key_set
    \/ ~env.network_ok
    \/ ~IsSuccess(env.status)
    \/ ~env.body_ok

\* activities.rs:66-149
model_call(env) ==
    IF StreamFails(env) THEN FromAnyhow ELSE Ok("ModelCallOutput")

\* the engine has scheduled the named activity in an environment
ModelTaskScheduled(activity, env) ==
    [pc |-> "scheduled", activity |-> activity, env |-> env, outcome |-> None]

ModelTaskFrame == UNCHANGED <<wvars, avars, tool_task, random_sources, clock, runs>>

\* activities/model.rs:37-159: the activity runs to its result
InvokeModelActivity ==
    /\ model_task.pc = "scheduled"
    /\ model_task.activity = "invoke_model_activity"
    /\ model_task' = [model_task EXCEPT !.pc = "closed",
                                        !.outcome = Some(invoke_model_activity(model_task.env))]
    /\ ModelTaskFrame

\* activities.rs:66-149: the activity runs to its result
ModelCall ==
    /\ model_task.pc = "scheduled"
    /\ model_task.activity = "model_call"
    /\ model_task' = [model_task EXCEPT !.pc = "closed",
                                        !.outcome = Some(model_call(model_task.env))]
    /\ ModelTaskFrame

ModelTaskInit ==
    /\ AdapterStart({"Never"}, {FALSE})
    /\ call_args = [c \in CallIds |-> NoArguments]
    /\ \E activity \in {"invoke_model_activity", "model_call"}, env \in ModelCallEnv :
          model_task = ModelTaskScheduled(activity, env)
    /\ tool_task = NoTask
    /\ random_sources = NoTask
    /\ clock = NoTask
    /\ runs = NoTask
ModelTaskNext ==
    \/ InvokeModelActivity
    \/ ModelCall
ModelTaskSpec == ModelTaskInit /\ [][ModelTaskNext]_vars

\* ------------------------------------------------ deterministic entropy
\* calls made on each random source in the runs followed
MaxRandomCalls == 3

\* a u64 is its 64 bits, bit 0 the least significant
Bits == 0..63
\* the u64 whose 16-bit limbs are h3 h2 h1 h0, h3 the most significant
U64(h3, h2, h1, h0) ==
    LET limbs == <<h0, h1, h2, h3>>
    IN [i \in Bits |-> (limbs[(i \div 16) + 1] \div (2 ^ (i % 16))) % 2]
Xor(a, b) == [i \in Bits |-> (a[i] + b[i]) % 2]
\* x << n and x >> n on u64: bits shifted out are lost
Shl(x, n) == [i \in Bits |-> IF i >= n THEN x[i - n] ELSE 0]
Shr(x, n) == [i \in Bits |-> IF i + n <= 63 THEN x[i + n] ELSE 0]

\* the seeds the engine may hand to the workflow
Seeds == {U64(0, 0, 0, 0), U64(0, 0, 0, 1), U64(0, 0, 0, 42),
          U64(57005, 48879, 51966, 47806), U64(65535, 65535, 65535, 65535)}

\* entropy.rs:34-37: one xorshift64 step
XorShift64(old) ==
    LET x1 == Xor(old, Shl(old, 13))
        x2 == Xor(x1, Shr(x1, 7))
    IN Xor(x2, Shl(x2, 17))

\* entropy.rs:23-29: seed 0 is replaced by 0xDEAD_BEEF_CAFE_BABE
TemporalRandomSource(seed) ==
    [state |-> IF seed = U64(0, 0, 0, 0) THEN U64(57005, 48879, 51966, 47806) ELSE seed,
     pc |-> "idle", old |-> None, part |-> <<>>, out |-> <<>>]

\* (variant) the value computed is returned though the exchange failed
CompareExchangeWeak_ReturnsOnFailure(source, succeeds) ==
    LET x == XorShift64(Unwrap(source.old))
    IN IF succeeds THEN [state |-> x, value |-> Some(x)]
       ELSE [state |-> source.state, value |-> Some(x)]

\* entropy.rs:38-44: compare_exchange_weak(old, x) stores x and next_u64 returns
\* it, or fails (spuriously, the source having one user) and the loop goes round
CompareExchangeWeak(source, succeeds) ==
    LET x == XorShift64(Unwrap(source.old))
    IN IF succeeds THEN [state |-> x, value |-> Some(x)]
       ELSE [state |-> source.state, value |-> None]

\* to_le_bytes()[k] of a u64
Byte(x, k) ==
    LET bit(j) == x[8 * k + j]
    IN bit(0) + 2 * bit(1) + 4 * bit(2) + 8 * bit(3)
       + 16 * bit(4) + 32 * bit(5) + 64 * bit(6) + 128 * bit(7)

HexDigits == <<"0", "1", "2", "3", "4", "5", "6", "7", "8", "9", "a", "b", "c", "d", "e", "f">>
Hex(byte) == <<HexDigits[(byte \div 16) + 1], HexDigits[(byte % 16) + 1]>>

\* Uuid::to_string: the 16 bytes in hex, hyphens after bytes 4, 6, 8 and 10
RECURSIVE Hyphenated(_, _)
Hyphenated(buf, k) ==
    IF k > 16 THEN <<>>
    ELSE Hex(buf[k]) \o (IF k \in {4, 6, 8, 10} THEN <<"-">> ELSE <<>>)
         \o Hyphenated(buf, k + 1)

\* entropy.rs:50-64
uuid(a, b) ==
    LET raw == [k \in 1..16 |-> IF k <= 8 THEN Byte(a, k - 1) ELSE Byte(b, k - 9)]
        buf == [raw EXCEPT ![7] = (raw[7] % 16) + 64,
                           ![9] = (raw[9] % 64) + 128]
    IN Hyphenated(buf, 1)

\* entropy.rs:66-68: (x >> 11) as f64 / 2^53, exactly
f64(x) == [mantissa |-> Shr(x, 11), exponent |-> -53]

\* entropy.rs:70-72
u64(x) == x

RandomCalls == {"u64", "f64", "uuid"}
\* next_u64 calls one call of the kind makes
Draws(kind) == IF kind = "uuid" THEN 2 ELSE 1
\* what the call returns from the values drawn
Returned(kind, part) ==
    CASE kind = "uuid" -> uuid(part[1], part[2])
      [] kind = "f64" -> f64(part[1])
      [] OTHER -> u64(part[1])

RandomFrame == UNCHANGED <<wvars, avars, tool_task, model_task, clock, runs>>

\* entropy.rs:33: source i goes on with the call it is in, or begins its next
\* one, and loads the state
NextU64Load(i) ==
    LET source == random_sources.src[i]
    IN /\ source.pc = "idle"
       /\ Len(source.out) < Len(random_sources.calls)
       /\ random_sources' = [random_sources EXCEPT
                               !.src[i].pc = "loaded", !.src[i].old = Some(source.state)]
       /\ RandomFrame

\* entropy.rs:34-44, and the call's return once it has drawn what it needs
NextU64Exchange(i, succeeds) ==
    LET source == random_sources.src[i]
        kind == random_sources.calls[Len(source.out) + 1]
        cas == CompareExchangeWeak(source, succeeds)
        part == source.part \o cas.value
        returns == Len(part) = Draws(kind)
    IN /\ source.pc = "loaded"
       /\ random_sources' = [random_sources EXCEPT
             !.src[i] = [state |-> cas.state, pc |-> "idle", old |-> None,
                         part |-> IF returns THEN <<>> ELSE part,
                         out |-> IF returns THEN Append(source.out, Returned(kind, part))
                                 ELSE source.out]]
       /\ RandomFrame

\* two sources are constructed from one seed; both will be asked the same calls
RandomInit ==
    /\ AdapterStart({"Never"}, {FALSE})
    /\ call_args = [c \in CallIds |-> NoArguments]
    /\ \E seed \in Seeds, calls \in [1..MaxRandomCalls -> RandomCalls] :
          random_sources = [seed |-> seed, calls |-> calls,
                            src |-> <<TemporalRandomSource(seed), TemporalRandomSource(seed)>>]
    /\ tool_task = NoTask
    /\ model_task = NoTask
    /\ clock = NoTask
    /\ runs = NoTask
RandomNext ==
    \E i \in {1, 2} :
        \/ NextU64Load(i)
        \/ \E succeeds \in BOOLEAN : NextU64Exchange(i, succeeds)
RandomSpec == RandomInit /\ [][RandomNext]_vars

\* ------------------------------------------------------ deterministic clock
\* calls made on the clock in the runs followed
MaxClockCalls == 4

\* a SystemTime is its distance from UNIX_EPOCH in nanoseconds
NanosPerMilli == 1000000
\* workflow.rs:142: the workflow times the engine may report, UNIX_EPOCH when
\* it reports none
WorkflowTimes == {0, 1, 999999, 1000000, 1500000, 2000001}

\* entropy.rs:93-98
TemporalClock(workflow_time) == [epoch |-> workflow_time, tick |-> 0, returned |-> <<>>]

\* (variant) the tick is read and left as it was
FetchAdd_NoIncrement(tick) == [previous |-> tick, tick |-> tick]

\* AtomicU64::fetch_add(1): the value before the addition is returned
FetchAdd(tick) == [previous |-> tick, tick |-> tick + 1]

\* entropy.rs:117-120: self.epoch + Duration::from_millis(ticks)
wall_time(epoch, ticks) == epoch + ticks * NanosPerMilli

\* entropy.rs:122-127: the whole milliseconds since UNIX_EPOCH, 0 before it
unix_millis(time) == IF time >= 0 THEN time \div NanosPerMilli ELSE 0

ClockFrame == UNCHANGED <<wvars, avars, tool_task, model_task, random_sources, runs>>

\* entropy.rs:117-120
WallTime ==
    LET fetched == FetchAdd(clock.tick)
    IN /\ Len(clock.returned) < MaxClockCalls
       /\ clock' = [clock EXCEPT
             !.tick = fetched.tick,
             !.returned = Append(@, [call |-> "wall_time",
                                     value |-> wall_time(clock.epoch, fetched.previous)])]
       /\ ClockFrame

\* entropy.rs:122-127
UnixMillis ==
    LET fetched == FetchAdd(clock.tick)
    IN /\ Len(clock.returned) < MaxClockCalls
       /\ clock' = [clock EXCEPT
             !.tick = fetched.tick,
             !.returned = Append(@, [call |-> "unix_millis",
                                     value |-> unix_millis(wall_time(clock.epoch, fetched.previous))])]
       /\ ClockFrame

ClockInit ==
    /\ AdapterStart({"Never"}, {FALSE})
    /\ call_args = [c \in CallIds |-> NoArguments]
    /\ \E workflow_time \in WorkflowTimes : clock = TemporalClock(workflow_time)
    /\ tool_task = NoTask
    /\ model_task = NoTask
    /\ random_sources = NoTask
    /\ runs = NoTask
ClockNext == WallTime \/ UnixMillis
ClockSpec == ClockInit /\ [][ClockNext]_vars

\* ------------------------------------------- run() up to its loop, replayed
\* an execution of run() and the engine's replay of it
Executions == {"original", "replay"}

\* what the operating system's random pool hands out, when it is asked
OsEntropy == {<<U64(0, 0, 0, 1), U64(0, 0, 0, 2)>>, <<U64(0, 0, 0, 3), U64(0, 0, 0, 4)>>}

\* workflow.rs:136-139: run() is entered; no ENTROPY scope is active
RunEntered == [pc |-> "entered", scope |-> FALSE, random |-> None, generated |-> <<>>]

\* an identifier is generated: from the scoped random source when the ENTROPY
\* scope is active (two next_u64 draws, entropy.rs:50-64), from the operating
\* system otherwise, as in the activities (activities.rs:71, 208), which call
\* ThreadId::new() with no scope at all
NewId(execution, os) ==
    IF execution.scope
    THEN LET a == XorShift64(Unwrap(execution.random).state)
             b == XorShift64(a)
         IN [value |-> uuid(a, b),
             random |-> Some([Unwrap(execution.random) EXCEPT !.state = b])]
    ELSE [value |-> uuid(os[1], os[2]), random |-> execution.random]

Generated(execution, what, id) ==
    Append(execution.generated, [what |-> what, scoped |-> execution.scope, value |-> id])

RunFrame == UNCHANGED <<wvars, avars, tool_task, model_task, random_sources, clock>>

\* workflow.rs:141-146: the providers are built from the seed
RunEntropyProviders(e) ==
    /\ runs.exec[e].pc = "entered"
    /\ runs' = [runs EXCEPT !.exec[e].pc = "providers",
                            !.exec[e].random = Some(TemporalRandomSource(runs.seed))]
    /\ RunFrame

\* workflow.rs:161: let conversation_id = ThreadId::new()
RunThreadIdNew(e) ==
    /\ runs.exec[e].pc = "providers"
    /\ \E os \in OsEntropy :
          LET id == NewId(runs.exec[e], os)
          IN runs' = [runs EXCEPT
                !.exec[e].pc = "conversation_id",
                !.exec[e].random = id.random,
                !.exec[e].generated = Generated(runs.exec[e], "conversation_id", id.value)]
    /\ RunFrame

\* workflow.rs:162-171: Session::new_minimal(conversation_id, ...)
RunSessionNewMinimal(e) ==
    /\ runs.exec[e].pc = "conversation_id"
    /\ runs' = [runs EXCEPT
          !.exec[e].pc = "session",
          !.exec[e].generated =
              Generated(runs.exec[e], "session", runs.exec[e].generated[1].value)]
    /\ RunFrame

\* workflow.rs:193-195: ENTROPY.scope(entropy, async { loop { ...
RunEntropyScope(e) ==
    /\ runs.exec[e].pc = "session"
    /\ runs' = [runs EXCEPT !.exec[e].pc = "loop", !.exec[e].scope = TRUE]
    /\ RunFrame

\* workflow.rs:196-327: the loop body asks for an identifier
RunLoopNewId(e) ==
    /\ runs.exec[e].pc = "loop"
    /\ Len(runs.exec[e].generated) < 2 + MaxRandomCalls
    /\ \E os \in OsEntropy :
          LET id == NewId(runs.exec[e], os)
          IN runs' = [runs EXCEPT
                !.exec[e].random = id.random,
                !.exec[e].generated = Generated(runs.exec[e], "loop", id.value)]
    /\ RunFrame

\* the engine runs the workflow, and replays it, with one random seed
RunInit ==
    /\ AdapterStart({"Never"}, {FALSE})
    /\ call_args = [c \in CallIds |-> NoArguments]
    /\ \E seed \in Seeds :
          runs = [seed |-> seed, exec |-> [e \in Executions |-> RunEntered]]
    /\ tool_task = NoTask
    /\ model_task = NoTask
    /\ random_sources = NoTask
    /\ clock = NoTask
RunNext ==
    \E e \in Executions :
        \/ RunEntropyProviders(e)
        \/ RunThreadIdNew(e)
        \/ RunSessionNewMinimal(e)
        \/ RunEntropyScope(e)
        \/ RunLoopNewId(e)
RunSpec == RunInit /\ [][RunNext]_vars

\* ----------------------------------------------------------------- claims

\* C1: under policy OnRequest or OnFailure the tool_exec activity is dispatched
\* for a call C only after receive_approval{call_id = C, approved = true} was
\* applied while C was the pending approval
C1_DispatchOnlyAfterOwnApproval ==
    approval_policy \in {"OnRequest", "OnFailure"} => dispatched \subseteq approved_applied

\* the events of kind msg pushed so far, as positions of `emitted`
Positions(msg, id) ==
    {i \in 1..Len(emitted) : emitted[i].msg = msg /\ emitted[i].id = id}

IsTurnEvent(e) == e.msg \in {"TurnStarted", "TurnComplete"}
TurnEvents == SelectSeq(emitted, IsTurnEvent)

IsTurnStarted(e) == e.msg = "TurnStarted"
StartedTurnIds ==
    LET starts == SelectSeq(emitted, IsTurnStarted)
    IN [i \in 1..Len(starts) |-> Unwrap(starts[i].id)]

C3_PendingOnlyWhileAwaiting ==
    /\ IsSome(pending_approval) =>
          /\ pc = "tools"
          /\ handlers[Unwrap(pending_approval).call_id] = "awaiting_approval"
    /\ (LoopWakeEnabled \/ SamplingDoneEnabled \/ pc \in {"wait_turn", "model_call", "done"})
          => pending_approval = None

\* C3 witness: a handler is suspended on an undecided approval; and one whose
\* approval was handled and whose turn is over
C3_Witness ==
    /\ pc = "wait_turn"
    /\ ~running
    /\ \E c \in CallIds : IsSome(decision_read[c]) /\ IsSome(Unwrap(decision_read[c]))
    /\ Positions("TurnComplete", Some(0)) # {}

\* C4: every TurnStarted{t} pushed is eventually followed by exactly one
\* TurnComplete{t} (fair scheduling, activities return, approvals are answered)
C4_TurnStartedThenOneComplete ==
    /\ [](\A t \in TurnIds :
            /\ Cardinality(Positions("TurnComplete", Some(t))) <= 1
            /\ \A j \in Positions("TurnComplete", Some(t)) :
                  \E i \in Positions("TurnStarted", Some(t)) : i < j)
    /\ \A t \in TurnIds :
          (Positions("TurnStarted", Some(t)) # {}) ~> (Positions("TurnComplete", Some(t)) # {})

\* C4 witness: a turn that asked for an approval and ran a tool is complete
C4_Witness ==
    \E t \in TurnIds :
        /\ Positions("TurnComplete", Some(t)) # {}
        /\ \E i \in 1..Len(emitted) :
              emitted[i].msg = "ExecApprovalRequest" /\ emitted[i].id = Some(t)
        /\ dispatched # {}

\* C5: turns never overlap: the TurnStarted/TurnComplete events pushed alternate,
\* each TurnComplete carrying the turn_id of the TurnStarted before it
C5_TurnsNeverOverlap ==
    \A i \in 1..Len(TurnEvents) :
        IF i % 2 = 1
        THEN TurnEvents[i].msg = "TurnStarted"
        ELSE /\ TurnEvents[i].msg = "TurnComplete"
             /\ TurnEvents[i].id = TurnEvents[i - 1].id

\* C5 witness: a first turn has completed and a second one has started
C5_Witness ==
    /\ Len(TurnEvents) >= 3
    /\ TurnEvents[3].id # TurnEvents[1].id

\* C6: the turn_ids of the TurnStarted events are a prefix of the turn_ids put
\* into user_turns (the seeded turn-0, then the signals in delivery order)
C6_StartedIsPrefixOfEnqueued ==
    /\ Len(StartedTurnIds) <= Len(enqueued)
    /\ \A i \in 1..Len(StartedTurnIds) : StartedTurnIds[i] = enqueued[i]

\* C6 witness: two turns were queued together and both have started
C6_Witness ==
    /\ Len(enqueued) >= 2
    /\ Len(StartedTurnIds) = Len(enqueued)

\* C7: if request_shutdown is received while turn t is in progress,
\* TurnComplete{t} is pushed before ShutdownComplete and no TurnStarted is pushed
\* after TurnComplete{t}
C7_ShutdownDuringTurn ==
    \A t \in shutdown_during :
        /\ \A k \in Positions("ShutdownComplete", None) :
              \E j \in Positions("TurnComplete", Some(t)) : j < k
        /\ \A j \in Positions("TurnComplete", Some(t)) :
              \A i \in 1..Len(emitted) : i > j => emitted[i].msg # "TurnStarted"

\* C7 witness: the shutdown arrived during a turn, another turn was queued, and
\* the workflow has returned
C7_Witness ==
    /\ shutdown_during # {}
    /\ pc = "done"
    /\ user_turns # <<>>

\* an approval request is pending and undecided
AwaitingDecision ==
    IsSome(pending_approval) /\ Unwrap(pending_approval).decision = None

\* C8 (as claimed): after request_shutdown the workflow eventually pushes
\* ShutdownComplete and returns, under fair scheduling and with activities that
\* return, also when the shutdown arrives while a handler awaits an approval
C8_ShutdownTerminates ==
    shutdown_requested ~> (pc = "done")

\* C8 (amended): the same, provided every pending approval request is eventually
\* answered
C8_ShutdownTerminatesIfAnswered ==
    (AwaitingDecision ~> ~AwaitingDecision) => (shutdown_requested ~> (pc = "done"))

\* C8 witness: the shutdown arrived during a turn in which an approval was
\* awaited, and the workflow has pushed ShutdownComplete last and returned
C8_Witness ==
    /\ pc = "done"
    /\ emitted[Len(emitted)] = ShutdownCompleteEvent
    /\ \E t \in shutdown_during : \E i \in 1..Len(emitted) :
          emitted[i].msg = "ExecApprovalRequest" /\ emitted[i].id = Some(t)

\* C9: the buffer's length never decreases and the event stored at an index
\* never changes, whatever run-loop steps, signals and queries interleave
C9_BufferAppendOnly ==
    [][/\ Len(events') >= Len(events)
       /\ SubSeq(events', 1, Len(events)) = events]_vars

\* events[k..n], serialized, in order
ExpectedJsons(buf, k) ==
    [i \in 1..(IF k >= Len(buf) THEN 0 ELSE Len(buf) - k) |-> [json |-> buf[k + i]]]

DeliveredEvents == [i \in 1..Len(delivered) |-> delivered[i].event]

IsPrefix(a, b) == Len(a) <= Len(b) /\ SubSeq(b, 1, Len(a)) = a

\* C11: with one caller of next_event, the events next_event has returned are
\* the workflow's event buffer in order (none skipped, none twice), and
\* events_index is the number of workflow events fetched so far (those returned
\* and those still in event_buffer)
C11_NextEventFollowsBuffer ==
    /\ IsPrefix(DeliveredEvents \o event_buffer, events)
    /\ ne[1].pc \in {"idle", "loop", "querying", "got"} =>
          events_index = Len(delivered) + Len(event_buffer)

\* C12: with two callers of next_event no workflow event is returned twice
\* (the events of the buffer are pairwise different)
C12_EachEventToOneCaller ==
    \A i, j \in 1..Len(delivered) :
        i # j => delivered[i].event # delivered[j].event

\* C13: however the submit(UserTurn) calls of two tasks interleave, none of them
\* fails: one starts the workflow and the other signals receive_user_turn
C13_NoSubmitFailsInRace ==
    \A j \in Submitters : IsSome(sub[j].ret) => Unwrap(sub[j].ret).ok

\* C14: an adapter constructed for a workflow that is running already returns
\* that workflow's events through next_event
C14_ReconnectedAdapterReturnsEvents ==
    (reconnected /\ events # <<>>) ~> (delivered # <<>>)

\* C15: the results of next_event contain no more than one ShutdownComplete,
\* whether the queries after the shutdown succeed or fail
C15_OneShutdownComplete ==
    Cardinality({i \in 1..Len(delivered) :
                    delivered[i].event.msg = "ShutdownComplete"}) <= 1

\* C16: a failed poll makes next_event return a synthesized ShutdownComplete
\* exactly when the local shutdown flag is set; with the flag unset nothing is
\* returned for the failure and the loop goes on to poll again
C16_SynthesizedIffShutdownFlag ==
    [][/\ query_failures' # query_failures =>
            \E k \in Callers :
               /\ ne[k].pc = "querying"
               /\ IF shutdown
                  THEN /\ delivered' = Append(delivered,
                              [caller |-> k, event |-> ShutdownCompleteEvent,
                               synthesized |-> TRUE])
                       /\ ne'[k].pc = "idle"
                  ELSE /\ delivered' = delivered
                       /\ ne'[k].pc = "loop"
       /\ (Len(delivered') > Len(delivered) /\ delivered'[Len(delivered')].synthesized) =>
            (query_failures' # query_failures /\ shutdown)]_vars

\* C16 witness: a poll has failed with the flag set and next_event has returned
\* the synthesized ShutdownComplete
C16_Witness ==
    /\ query_failures > 0
    /\ shutdown
    /\ \E i \in 1..Len(delivered) :
          delivered[i].synthesized /\ delivered[i].event = ShutdownCompleteEvent

\* the boolean the claim gives for each decision
ApprovedAsClaimed(decision) ==
    CASE decision = "Approved" -> TRUE
      [] decision = "ApprovedForSession" -> TRUE
      [] decision = "ApprovedExecpolicyAmendment" -> TRUE
      [] OTHER -> FALSE

\* C17: submit(ExecApproval{id, decision}) sends one receive_approval{id, b},
\* b true exactly for Approved, ApprovedForSession and
\* ApprovedExecpolicyAmendment, and that is the signal the workflow applies
C17_ExecApprovalSendsOneSignal ==
    [][\A j \in Submitters :
          (sub'[j] # sub[j] /\ IsSome(sub'[j].op)
             /\ Unwrap(sub'[j].op).kind = "ExecApproval") =>
          LET id == Unwrap(Unwrap(sub'[j].op).id)
              b == ApprovedAsClaimed(Unwrap(Unwrap(sub'[j].op).decision))
          IN /\ sub'[j].sent = <<[req |-> "receive_approval", call_id |-> id,
                                  approved |-> b]>>
             /\ Unwrap(sub'[j].ret).ok =>
                   pending_approval' = ApplyApproval(pending_approval, id, b)]_vars

\* C17 witness: an ApprovedForSession for the pending call was submitted and the
\* workflow has applied it as an approval
C17_Witness ==
    \E j \in Submitters, c \in CallIds :
        /\ sub[j].op = Some(Op("ExecApproval", Some(c), Some("ApprovedForSession")))
        /\ sub[j].ret = Some(Ok(c))
        /\ pending_approval = Some(PendingApproval(c, Some(TRUE)))

\* C18: submit of Interrupt or of any other op that is not UserTurn, ExecApproval
\* or Shutdown returns Ok with a sentinel id, sends nothing to the engine and
\* leaves started, events_index, event_buffer, turn_counter, shutdown and the
\* workflow as they were
C18_OtherOpsAreNoops ==
    [][\A j \in Submitters :
          (sub'[j] # sub[j] /\ IsSome(sub'[j].op)
             /\ Unwrap(sub'[j].op).kind \in NoopKinds) =>
          /\ sub'[j].ret \in {Some(Ok("interrupt-noop")), Some(Ok("noop"))}
          /\ sub'[j].sent = <<>>
          /\ UNCHANGED <<started, events_index, event_buffer, turn_counter, shutdown>>
          /\ UNCHANGED wvars]_vars

\* C18 witness: an Interrupt was submitted to a started adapter whose workflow
\* is in a turn, and submit returned its sentinel
C18_Witness ==
    /\ sub[1].op = Some(Op("Interrupt", None, None))
    /\ sub[1].ret = Some(Ok("interrupt-noop"))
    /\ started
    /\ pc = "tools"

CommandAsClaimed(arguments) ==
    CASE arguments.raw = "{command:[ls]}" -> <<"ls">>
      [] arguments.raw = "{command:[rm,-rf,/]}" -> <<"rm", "-rf", "/">>
      [] OTHER -> <<arguments.raw>>

NeedsApprovalAsClaimed(c) ==
    \/ approval_policy \in {"OnRequest", "OnFailure"}
    \/ /\ approval_policy = "UnlessTrusted"
       /\ ~is_known_safe_command(CommandAsClaimed(call_args[c]))

\* C20: when the handler of a call starts, it sets pending_approval and emits
\* ExecApprovalRequest if and only if the policy is OnRequest or OnFailure, or
\* it is UnlessTrusted and the command vector (the "command" string array of the
\* arguments, else the raw arguments alone) is not known safe; otherwise, and
\* always under Never, it does neither and dispatches the call
C20_ApprovalRequestedIffPolicySaysSo ==
    [][\A c \in CallIds :
          (handlers[c] = "created" /\ handlers'[c] # "created") =>
          IF NeedsApprovalAsClaimed(c)
          THEN /\ pending_approval' = Some(PendingApproval(c, None))
               /\ events' = Append(events, ExecApprovalRequestEvent(Unwrap(turn_id), c))
               /\ handlers'[c] = "awaiting_approval"
          ELSE /\ pending_approval' = pending_approval
               /\ events' = events
               /\ handlers'[c] = "awaiting_activity"]_vars

\* C20 witness: under UnlessTrusted one call with a safe command was dispatched
\* without a request and one whose arguments have no command array awaits
\* its approval
C20_Witness ==
    /\ approval_policy = "UnlessTrusted"
    /\ \E c, d \in CallIds :
          /\ is_known_safe_command(CommandOf(call_args[c]))
          /\ c \in dispatched
          /\ \A i \in 1..Len(emitted) : emitted[i].call_id # Some(c)
          /\ call_args[d].raw = "{command:ls}"
          /\ handlers[d] = "awaiting_approval"
          /\ pending_approval = Some(PendingApproval(d, None))

\* C21: no turn issues more than MAX_ITERATIONS sampling requests; a turn whose
\* MAX_ITERATIONS-th request still asked for a follow-up has issued exactly that
\* many, its inner loop is over and its TurnComplete is pushed
C21_AtMostMaxIterationsPerTurn ==
    \A t \in TurnIds :
        /\ turn_stats[t].requests <= MAX_ITERATIONS
        /\ turn_stats[t].capped =>
              /\ turn_stats[t].requests = MAX_ITERATIONS
              /\ turn_id # Some(t)
              /\ Positions("TurnComplete", Some(t)) # {}

\* C21 witness: a turn stopped at the cap and the workflow waits for the next
C21_Witness ==
    /\ pc = "wait_turn"
    /\ \E t \in TurnIds : turn_stats[t].capped /\ Positions("TurnComplete", Some(t)) # {}

\* C22: a turn whose inner loop stopped at MAX_ITERATIONS has a warning event in
\* the buffer ahead of its TurnComplete
C22_WarningBeforeTurnComplete ==
    \A t \in TurnIds :
        turn_stats[t].capped =>
            \A j \in Positions("TurnComplete", Some(t)) :
                \E w \in 1..(j - 1) : emitted[w].msg = "Warning"

\* the sampling requests issued in the turns of T
RECURSIVE RequestsIn(_)
RequestsIn(T) ==
    IF T = {} THEN 0
    ELSE LET t == CHOOSE x \in T : TRUE
         IN turn_stats[t].requests + RequestsIn(T \ {t})

\* C23: the iterations of the workflow result is the number of sampling requests
\* issued in the run, over all turns and with those that returned an error; it is
\* MAX_ITERATIONS when the run's one turn stopped at the cap
C23_IterationsCountsEveryRequest ==
    pc = "done" =>
        /\ CodexWorkflowOutput.iterations = RequestsIn(TurnIds)
        /\ (Len(StartedTurnIds) = 1 /\ turn_stats[StartedTurnIds[1]].capped)
              => CodexWorkflowOutput.iterations = 50

\* C23 witness: the run's one turn stopped at the cap and the workflow returned
C23_Witness ==
    /\ pc = "done"
    /\ Len(StartedTurnIds) = 1
    /\ turn_stats[StartedTurnIds[1]].capped
    /\ CodexWorkflowOutput.iterations = 50

\* a step in which the sampling request of the current turn returns an error:
\* the model_call activity failed, or a tool handler returned Err because its
\* tool_exec activity failed
SamplingFails ==
    \/ ModelCallReturn(TRUE, FALSE, 0, {})
    \/ SamplingDone /\ \E c \in CallIds : handlers[c] = "failed"

\* what such a step leaves: the inner loop is over, the turn's TurnComplete is
\* the last event but shutdown's, nothing is pending
TurnEndedByError ==
    /\ turn_id' = None
    /\ pc' # "model_call"
    /\ \E j \in 1..Len(emitted') :
          /\ j > Len(emitted)
          /\ emitted'[j].msg = "TurnComplete"
          /\ emitted'[j].id = turn_id
    /\ pending_approval' = None

\* C24 as stated: when the sampling request returns an error the turn's inner
\* loop ends, its TurnComplete is pushed, pending_approval is None and the
\* workflow waits for the next turn
C24_ErrorEndsTurnAndWaits ==
    [][SamplingFails => (TurnEndedByError /\ pc' = "wait_turn")]_vars

\* C24 amended: ... and the workflow waits for the next turn unless shutdown
\* was requested, in which case it pushes ShutdownComplete and returns as after
\* any other turn
C24_ErrorEndsTurnOnly ==
    [][SamplingFails =>
          /\ TurnEndedByError
          /\ pc' = (IF shutdown_requested THEN "done" ELSE "wait_turn")
          /\ shutdown_requested => emitted'[Len(emitted')] = ShutdownCompleteEvent]_vars

\* C24 witness: the one sampling request of the run dispatched a tool and the
\* turn is over without a follow-up request (the tool_exec activity failed); the
\* workflow waits
C24_Witness ==
    /\ pc = "wait_turn"
    /\ total_iterations = 1
    /\ dispatched # {}
    /\ pending_approval = None
    /\ \E t \in TurnIds : Positions("TurnComplete", Some(t)) # {}

\* the registry's answer stands for a tool that ended with a non-zero exit code
ToolFailed(r) == r.ok /\ r.value = [type |-> "FunctionCallOutput", success |-> Some(FALSE)]

\* C25: a tool that ends with a non-zero exit code and a registry dispatch
\* failure both make tool_exec return Ok(ToolExecOutput) (the dispatch failure
\* with exit_code 1), never an activity error, and the handler turns every
\* ToolExecOutput into a function_call_output with success = (exit_code = 0)
C25_ToolFailureIsAResult ==
    /\ (tool_task.closed_by = Some("activity") /\ tool_task.config_ok) =>
          LET r == Unwrap(tool_task.dispatched_as)
              outcome == Unwrap(tool_task.outcome)
          IN /\ ~r.ok => outcome.ok /\ outcome.value.exit_code = 1
             /\ ToolFailed(r) => outcome.ok /\ outcome.value.exit_code # 0
    /\ (tool_task.pc = "awaited" /\ Unwrap(tool_task.outcome).ok) =>
          LET out == Unwrap(tool_task.outcome).value
              res == Unwrap(tool_task.handler_result)
          IN /\ res.ok
             /\ res.value.call_id = out.call_id
             /\ res.value.exit_code = out.exit_code
             /\ res.value.success = (out.exit_code = 0)

\* C25 witness: the registry failed to dispatch and the handler holds a
\* function_call_output with success = false
C25_Witness ==
    /\ tool_task.pc = "awaited"
    /\ IsSome(tool_task.dispatched_as)
    /\ ~Unwrap(tool_task.dispatched_as).ok
    /\ Unwrap(tool_task.handler_result).ok
    /\ ~Unwrap(tool_task.handler_result).value.success

\* C26: a tool_exec activity the engine was asked to cancel while it ran returns
\* a cancelled-activity error, not a ToolExecOutput
C26_CancelledToolExecReturnsCancelled ==
    (tool_task.cancel_requested /\ tool_task.closed_by = Some("activity")) =>
        Unwrap(tool_task.outcome) = Err("cancelled")

\* C27: a tool_exec activity that has run for the heartbeat timeout has recorded
\* a heartbeat, and the engine never fails one on heartbeat timeout
C27_LongToolExecHeartbeats ==
    /\ (tool_task.pc = "running" /\ tool_task.elapsed >= HEARTBEAT_TIMEOUT) =>
          tool_task.heartbeats > 0
    /\ tool_task.outcome # Some(Err("heartbeat timeout"))

\* the first thing that goes wrong for a model call in environment env
FailureCause(env) ==
    IF ~env.api_key_set THEN "missing_api_key"
    ELSE IF ~env.network_ok THEN "network"
    ELSE IF ~IsSuccess(env.status) THEN "status"
    ELSE IF ~env.body_ok THEN "unparsable_body"
    ELSE "none"

\* the class the claim gives a failure
RetryableAsClaimed(env) ==
    \/ FailureCause(env) = "network"
    \/ FailureCause(env) = "status" /\ (env.status = 429 \/ env.status \in 500..599)

\* C28: a model-call activity that fails returns a retryable error exactly when
\* the failure is a network failure or a status of 429 or 5xx; a missing API
\* key, any other status and an unparsable body are non-retryable
C28_ModelFailureClassified ==
    (model_task.pc = "closed" /\ model_task.env.tools_ok
        /\ FailureCause(model_task.env) # "none") =>
        Unwrap(model_task.outcome) =
            (IF RetryableAsClaimed(model_task.env) THEN Retryable ELSE NonRetryable)

\* the same of the legacy activity invoke_model_activity alone
InvokeModelActivityClassifies ==
    model_task.activity = "invoke_model_activity" => C28_ModelFailureClassified

\* C29: two TemporalRandomSource values constructed from the same seed return
\* the same values for the same sequence of u64, f64 and uuid calls: what one
\* has returned so far agrees with what the other has
C29_SameSeedSameValues ==
    LET out1 == random_sources.src[1].out
        out2 == random_sources.src[2].out
    IN \A n \in 1..MaxRandomCalls :
          (n <= Len(out1) /\ n <= Len(out2)) => out1[n] = out2[n]

\* C29 witness: both sources have answered every call, a uuid among them
C29_Witness ==
    /\ Len(random_sources.src[1].out) = MaxRandomCalls
    /\ Len(random_sources.src[2].out) = MaxRandomCalls
    /\ \E n \in 1..MaxRandomCalls : random_sources.calls[n] = "uuid"
    /\ \E n \in 1..MaxRandomCalls : random_sources.calls[n] = "f64"

\* the instant a returned value stands for, in nanoseconds since UNIX_EPOCH
InstantOf(r) == IF r.call = "unix_millis" THEN r.value * NanosPerMilli ELSE r.value

\* C30: on one TemporalClock every wall_time() or unix_millis() call returns
\* a value strictly greater than the call before it returned, and the first
\* call returns the workflow time (in whole milliseconds from unix_millis)
C30_WallTimeStrictlyIncreases ==
    \A n \in 1..Len(clock.returned) :
        LET r == clock.returned[n]
        IN IF n = 1
           THEN r.value = IF r.call = "wall_time" THEN clock.epoch
                          ELSE clock.epoch \div NanosPerMilli
           ELSE /\ InstantOf(r) > InstantOf(clock.returned[n - 1])
                /\ \A m \in 1..(n - 1) :
                      clock.returned[m].call = r.call => r.value > clock.returned[m].value

\* C30 witness: the clock, started between two milliseconds, has answered
\* wall_time and unix_millis calls, a wall_time call first
C30_Witness ==
    /\ Len(clock.returned) = MaxClockCalls
    /\ clock.epoch % NanosPerMilli # 0
    /\ clock.returned[1].call = "wall_time"
    /\ \E n \in 2..MaxClockCalls : clock.returned[n].call = "unix_millis"
    /\ \E n \in 2..MaxClockCalls : clock.returned[n].call = "wall_time"

\* C31: whatever run() generates, the conversation_id and the session included,
\* is generated while the ENTROPY scope is active, and the replay of a run
\* generates the values the run generated
C31_GeneratedUnderEntropyScope ==
    LET original == runs.exec["original"].generated
        replay == runs.exec["replay"].generated
    IN /\ \A e \in Executions :
             \A n \in 1..Len(runs.exec[e].generated) : runs.exec[e].generated[n].scoped
       /\ \A n \in 1..Len(original) :
             n <= Len(replay) => original[n].value = replay[n].value

\* C32: once a receive_approval has recorded a decision for the pending call,
\* the decision stays as recorded for as long as that call is pending, so a
\* later receive_approval with the opposite value does not change what the
\* handler reads
C32_RecordedDecisionIsKept ==
    [][(/\ IsSome(pending_approval)
        /\ IsSome(Unwrap(pending_approval).decision)
        /\ IsSome(pending_approval')
        /\ Unwrap(pending_approval').call_id = Unwrap(pending_approval).call_id)
       => pending_approval' = pending_approval]_vars

\* C33: a receive_approval sent when no approval is pending, or for another
\* call_id than the pending one, changes nothing in the workflow, and a request
\* that becomes pending is undecided whatever was sent before
C33_UnmatchedApprovalIsDropped ==
    [][/\ \A j \in Submitters :
            (/\ sub'[j] # sub[j]
             /\ IsSome(sub'[j].op)
             /\ Unwrap(sub'[j].op).kind = "ExecApproval"
             /\ ~(/\ IsSome(pending_approval)
                  /\ Unwrap(pending_approval).call_id = Unwrap(Unwrap(sub'[j].op).id)))
            => UNCHANGED wvars
       /\ (/\ IsSome(pending_approval')
           /\ ~(/\ IsSome(pending_approval)
                /\ Unwrap(pending_approval).call_id = Unwrap(pending_approval').call_id))
          => Unwrap(pending_approval').decision = None]_vars

\* C33 witness: the approval of call 1 was sent and accepted before call 1 asked
\* for it; now call 1 is pending and undecided
C33_Witness ==
    \E j \in Submitters :
        /\ sub[j].op = Some(Op("ExecApproval", Some(1), Some("Approved")))
        /\ sub[j].ret = Some(Ok(1))
        /\ 1 \notin approved_applied
        /\ pending_approval = Some(PendingApproval(1, None))
        /\ handlers[1] = "awaiting_approval"

\* C34: an ExecApprovalRequest for call c is emitted with pending_approval =
\* {c, undecided}, in the turn whose id it carries, and while no handler of
\* another call still waits for the answer to its own request
C34_OneApprovalRequestOutstanding ==
    [][(/\ Len(emitted') = Len(emitted) + 1
        /\ emitted'[Len(emitted')].msg = "ExecApprovalRequest")
       => LET e == emitted'[Len(emitted')]
              c == Unwrap(e.call_id)
          IN /\ pending_approval' = Some(PendingApproval(c, None))
             /\ e.id = turn_id /\ IsSome(turn_id) /\ turn_id' = turn_id
             /\ \A d \in CallIds \ {c} : handlers[d] # "awaiting_approval"]_vars

\* C35 (as claimed): once the workflow has appended ShutdownComplete and
\* returned, user_turns is empty
C35_NoTurnLeftAtExit == pc = "done" => user_turns = <<>>

\* C35 (amended): the workflow returns only after a shutdown request; leaving
\* from its wait it leaves an empty queue, leaving at the end of a turn it
\* leaves the queue as it is, turns that were never started included
C35_NoTurnLeftAtExitFromWait ==
    [][(pc' = "done" /\ pc # "done") =>
          /\ shutdown_requested
          /\ emitted'[Len(emitted')] = ShutdownCompleteEvent
          /\ user_turns' = user_turns
          /\ pc = "wait_turn" => user_turns = <<>>]_vars

\* C35 witness: the workflow has returned with a turn in its queue
C35_Witness ==
    /\ pc = "done"
    /\ user_turns # <<>>
    /\ emitted[Len(emitted)] = ShutdownCompleteEvent

\* C36: ShutdownComplete is pushed at most once and nothing is pushed after it:
\* wherever it stands among the events pushed, it is the last of them, and the
\* buffer holds it as its last event once run() has returned
C36_ShutdownCompleteIsFinal ==
    /\ \A i \in 1..Len(emitted) :
          emitted[i].msg = "ShutdownComplete" => i = Len(emitted)
    /\ pc = "done" => (events # <<>> /\ events[Len(events)] = ShutdownCompleteEvent)

\* C36 witness: run() has returned after a whole turn, with the shutdown
\* requested and a turn still queued that a later step could take up
C36_Witness ==
    /\ pc = "done"
    /\ Len(events) >= 3
    /\ events[Len(events)] = ShutdownCompleteEvent
    /\ shutdown_requested
    /\ user_turns # <<>>

C38_ReturnedTurnIdIsTheEventsId ==
    /\ \A j \in Submitters :
          (/\ IsSome(sub[j].op) /\ Unwrap(sub[j].op).kind = "UserTurn"
           /\ IsSome(sub[j].ret) /\ Unwrap(sub[j].ret).ok)
          => \E i \in 1..Len(enqueued) : enqueued[i] = Unwrap(sub[j].ret).value
    /\ \A i \in 1..Len(emitted) :
          (~reconnected /\ IsTurnEvent(emitted[i])) => Unwrap(emitted[i].id) \in 1..turn_counter

\* C39: every submit(UserTurn) the engine has accepted has put exactly one turn
\* into user_turns, the submit that started the workflow and a submit without
\* text included: the turns ever enqueued are as many as the turn ids taken by
\* submits that are past their engine call
C39_EachAcceptedTurnIsEnqueued ==
    Len(enqueued) =
        turn_counter - Cardinality({j \in Submitters : sub[j].pc \in {"start_call", "signal_call"}})

\* C40: when the engine refuses to start the workflow or to deliver a signal,
\* submit returns the Fatal error of that request in the same step, and the
\* flags started and shutdown keep the values they had
C40_FailedRequestKeepsFlags ==
    [][\A j \in Submitters :
          LET refused ==
                CASE sub[j].pc = "start_call" /\ sub'[j].pc # "start_call" /\ pc # "unstarted"
                       -> Some("failed to start workflow")
                  [] sub[j].pc = "signal_call" /\ sub'[j].pc # "signal_call" /\ ~WorkflowLive
                       -> Some("failed to signal user turn")
                  [] /\ sub[j].pc = "idle" /\ sub'[j] # sub[j] /\ ~WorkflowLive
                     /\ IsSome(sub'[j].op) /\ Unwrap(sub'[j].op).kind = "Shutdown"
                       -> Some("failed to signal shutdown")
                  [] /\ sub[j].pc = "idle" /\ sub'[j] # sub[j] /\ ~WorkflowLive
                     /\ IsSome(sub'[j].op) /\ Unwrap(sub'[j].op).kind = "ExecApproval"
                       -> Some("failed to signal approval")
                  [] OTHER -> None
          IN IsSome(refused) =>
                /\ sub'[j].pc = "idle"
                /\ sub'[j].ret = Some(Err(Unwrap(refused)))
                /\ started' = started
                /\ shutdown' = shutdown]_vars

\* C40 witness: the engine refused the start (a workflow with this id runs
\* already) and started is still false
C40_Witness ==
    /\ sub[1].ret = Some(Err("failed to start workflow"))
    /\ turn_counter = 1
    /\ ~started
    /\ ~shutdown

\* a request_shutdown was refused with the flag unset, as C40 has it
C40_ShutdownRefused ==
    /\ sub[1].ret = Some(Err("failed to signal shutdown"))
    /\ ~shutdown

====
